---------------------------- MODULE Spec2Model ----------------------------
(***************************************************************************)
(* NYCU-SDC/summer: error taxonomy, database error classifier, problem     *)
(* writer and middleware composition, modelled as state machines.          *)
(*                                                                         *)
(* Strings are modelled as sequences of tokens (a fixed phrase or one      *)
(* formatted argument per token), so that concatenation and Sprintf are    *)
(* computed and "the text of X occurs in Y" is a question about tokens.    *)
(***************************************************************************)
EXTENDS Integers, Sequences, FiniteSets, TLC

VARIABLES
    \* --- pkg/middleware: Set, Append, HandlerFunc --------------------------
    heap,       \* backing arrays of the []func slices: array id -> elements
    sets,       \* the Set values created so far: slice headers [arr, len, cap]
    made,       \* ghost: for each Set, the wrapper sequence it was created with
    caller,     \* the concurrent callers of Set.Append and where each one is
    handlerFn,  \* the http.HandlerFunc built by Set.HandlerFunc (outermost first)
    builtFrom,  \* ghost: the wrapper sequence of the Set handlerFn was built from
    cpc,        \* position of the request running through handlerFn
    cdepth,     \* number of wrappers of handlerFn currently entered
    events,     \* ghost: enter / handler / leave events of that request
    \* --- pkg/problem: HttpWriter.WriteError -------------------------------
    w,          \* the http.ResponseWriter (shared with the request machine)
    w0,         \* ghost: the ResponseWriter as the caller left it before the call
    perr,       \* the error handed to WriteError
    mapping,    \* the HttpWriter's ProblemMapping
    preq,       \* the *http.Request handed to WriteErrorWithRequest (or none)
    ppc,        \* "ready", or the function whose call has returned
    built,      \* ghost: the Problem the builder chose
    plog,       \* the log lines the call emitted
    sent500,    \* ghost: the distinct responses sent for errors of no kind
    \* --- pkg/database: WrapDBError ----------------------------------------
    dberr,      \* the native driver error handed to the classifier
    dbargs,     \* [keyed, table, key, value]: which variant and its lookup context
    dbres,      \* the error the classifier returned
    dbop,       \* the operation label handed to the classifier
    dblog,      \* the log lines the call emitted
    dbpc,       \* "ready", or "done" / "mssql" after a call of a classifier
    \* --- pkg/trace: TraceMiddleware, RecoverMiddleware ---------------------
    debug,      \* the debug flag both wrappers were built with
    rpc,        \* "idle" | "call" | "ret" | "unwind" | "done" | "crashed"
    rdepth,     \* number of wrapper frames of handlerFn on the call stack
    panicVal,   \* the panic payload in flight (NoPanic when none)
    bodyFault,  \* what reading the request body does: "none" | "read" | "close"
    spans,      \* per wrapper: spans started and ended for this request
    crw,        \* TraceMiddleware's CustomResponseWriter
    hops,       \* number of write operations the handler has done
    hw,         \* ghost: what the handler's writes alone give on a fresh writer
    reqNo,      \* number of requests started
    panicked,   \* ghost: did the handler panic, <<previous request, this one>>
    rlog,       \* the log lines of this request
    loggers,    \* per wrapper: the fields of the logger variable its closure
                \* captured (the parameter logger of the constructor)
    reqBody,    \* the bytes of the request body as the client sent them
    rbody,      \* the bytes still to be read from r.Body
    bodyBytes,  \* TraceMiddleware's bodyBytes
    bodyReads,  \* ghost: how often TraceMiddleware read r.Body
    handlerCalls, \* ghost: how often the handler was invoked for this request
    \* --- pkg/cors: CORSMiddleware ------------------------------------------
    allowOrigin, \* the allow-list the wrapper was built with
    creq,       \* the request: [origin, method]; origin "" is no Origin header
    corsPc,     \* "idle" | "call" | "next" | "done"
    nextCalls,  \* how often the downstream handler was invoked for this request
    nextReq,    \* the request the downstream handler was invoked with
    corsLog,    \* the log lines of this request
    \* --- handlerutil: the structured errors -------------------------------
    sbase,      \* the structured error instance that was constructed
    serr,       \* the error the caller holds: sbase, or sbase wrapped
    smsg,       \* serr.Error()
    sis,        \* per target: errors.Is(serr, target)
    spc         \* "ready" | "built" | "wrapped"

chainVars == <<heap, sets, made, caller, handlerFn, builtFrom, cpc, cdepth, events>>
probVars  == <<w0, perr, mapping, preq, ppc, built, plog, sent500>>
dbVars    == <<dberr, dbargs, dbres, dbop, dblog, dbpc>>
bodyVars  == <<reqBody, rbody, bodyBytes, bodyReads, handlerCalls>>
reqVars   == <<debug, rpc, rdepth, panicVal, bodyFault, spans, crw, hops, hw,
               reqNo, panicked, rlog, loggers, bodyVars>>
corsVars  == <<allowOrigin, creq, corsPc, nextCalls, nextReq, corsLog>>
errVars   == <<sbase, serr, smsg, sis, spc>>
vars      == <<chainVars, w, probVars, dbVars, reqVars, corsVars, errVars>>

----------------------------------------------------------------------------
(* Strings                                                                 *)

\* A string built from parts; empty parts vanish, as in Go concatenation.
Str(parts) == SelectSeq(parts, LAMBDA t : t # "")

Tokens(s) == {s[i] : i \in 1..Len(s)}

----------------------------------------------------------------------------
(* Errors: values, fmt.Errorf, errors.Join, errors.Is, errors.As           *)

\* The nil error.
Nil == [typ |-> "nil", id |-> "", ctx |-> <<>>, kids |-> <<>>]

\* errors.New(text): a pointer, identified by id.
ErrorsNew(id, text) ==
    [typ |-> "errorString", id |-> id, ctx |-> <<text>>, kids |-> <<>>]

ErrNotFound          == ErrorsNew("ErrNotFound", "record not found")
ErrForbidden         == ErrorsNew("ErrForbidden", "forbidden")
ErrCredentialInvalid == ErrorsNew("ErrCredentialInvalid", "invalid username or password")
ErrUserAlreadyExists == ErrorsNew("ErrUserAlreadyExists", "user already exists")
ErrUnauthorized      == ErrorsNew("ErrUnauthorized", "unauthorized")
ErrInternalServer    == ErrorsNew("ErrInternalServer", "internal server error")
ErrInvalidUUID       == ErrorsNew("ErrInvalidUUID", "failed to parse UUID")
ErrValidation        == ErrorsNew("ErrValidation", "validation error")

ErrInvalidPageOrSize   == ErrorsNew("ErrInvalidPageOrSize", "invalid page or size")
ErrInvalidSortingField == ErrorsNew("ErrInvalidSortingField", "invalid sorting field")

ErrUniqueViolation     == ErrorsNew("ErrUniqueViolation", "unique constraint violation")
ErrForeignKeyViolation == ErrorsNew("ErrForeignKeyViolation", "foreign key violation")
ErrDeadlockDetected    == ErrorsNew("ErrDeadlockDetected", "deadlock detected")
ErrQueryTimeout        == ErrorsNew("ErrQueryTimeout", "query timed out")

\* handlerutil.NotFoundError{Table, Key, Value, Message}
NewNotFoundError(table, key, value, message) ==
    [typ |-> "NotFoundError", id |-> "",
     ctx |-> <<table, key, value, message>>, kids |-> <<>>]

\* handlerutil.ValidationError{Field, Message, Errors}: ctx holds Field, then
\* Message, then the elements of Errors (Value plays no part in its message or
\* its matching). NewValidationError leaves Errors unset.
NewValidationError(field, message) ==
    [typ |-> "ValidationError", id |-> "", ctx |-> <<field, message>>, kids |-> <<>>]

\* handlerutil.NewValidationErrorWithErrors(message, errs): Field is unset
NewValidationErrorWithErrors(message, errs) ==
    [typ |-> "ValidationError", id |-> "", ctx |-> <<"", message>> \o errs,
     kids |-> <<>>]

\* ValidationError.Errors
ErrorsOf(e) == SubSeq(e.ctx, 3, Len(e.ctx))

\* handlerutil.InvalidUUIDError{UUID, Message}
NewInvalidUUIDError(uuid, message) ==
    [typ |-> "InvalidUUIDError", id |-> "", ctx |-> <<uuid, message>>, kids |-> <<>>]

\* validator.ValidationErrors of the go-playground validator, with its text
ValidatorErrors(text) ==
    [typ |-> "ValidationErrors", id |-> "", ctx |-> <<text>>, kids |-> <<>>]

\* databaseutil.InternalServerError{Source}: Source is a field, not an Unwrap
InternalServerError(source) ==
    [typ |-> "InternalServerError", id |-> "", ctx |-> <<>>, kids |-> <<source>>]

RECURSIVE ErrorMsg(_)
\* A faulty variant of err.Error(): a structured error tries its template
\* before its Message.
ErrorMsgTemplateFirst(e) ==
    CASE e.typ = "NotFoundError" ->
            IF e.ctx[2] # "" /\ e.ctx[3] # ""
            THEN Str(<<"unable to find ", e.ctx[1], " with ", e.ctx[2],
                       " '", e.ctx[3], "'">>)
            ELSE IF e.ctx[4] # "" THEN <<e.ctx[4]>>
                 ELSE ErrorMsg(ErrNotFound)
      [] e.typ = "ValidationError" ->
            IF e.ctx[1] # ""
            THEN Str(<<"validation failed for field '", e.ctx[1], "'">>)
            ELSE IF e.ctx[2] # "" THEN <<e.ctx[2]>>
                 ELSE ErrorMsg(ErrValidation)
      [] e.typ = "InvalidUUIDError" ->
            IF e.ctx[1] # ""
            THEN Str(<<"failed to parse UUID '", e.ctx[1], "'">>)
            ELSE IF e.ctx[2] # "" THEN <<e.ctx[2]>>
                 ELSE ErrorMsg(ErrInvalidUUID)
      [] e.typ = "InternalServerError" ->
            <<"internal server error: ">> \o ErrorMsg(e.kids[1])
      [] e.typ = "joinError" ->
            ErrorMsg(e.kids[1]) \o <<"\n">> \o ErrorMsg(e.kids[2])
      [] OTHER -> Str(e.ctx)

\* err.Error()
ErrorMsg(e) ==
    CASE e.typ = "NotFoundError" ->
            IF e.ctx[4] # "" THEN <<e.ctx[4]>>
            ELSE IF e.ctx[2] # "" /\ e.ctx[3] # ""
                 THEN Str(<<"unable to find ", e.ctx[1], " with ", e.ctx[2],
                            " '", e.ctx[3], "'">>)
                 ELSE ErrorMsg(ErrNotFound)
      [] e.typ = "ValidationError" ->
            IF e.ctx[2] # "" THEN <<e.ctx[2]>>
            ELSE IF e.ctx[1] # ""
                 THEN Str(<<"validation failed for field '", e.ctx[1], "'">>)
                 ELSE ErrorMsg(ErrValidation)
      [] e.typ = "InvalidUUIDError" ->
            IF e.ctx[2] # "" THEN <<e.ctx[2]>>
            ELSE IF e.ctx[1] # ""
                 THEN Str(<<"failed to parse UUID '", e.ctx[1], "'">>)
                 ELSE ErrorMsg(ErrInvalidUUID)
      [] e.typ = "InternalServerError" ->
            <<"internal server error: ">> \o ErrorMsg(e.kids[1])
      [] e.typ = "joinError" ->
            ErrorMsg(e.kids[1]) \o <<"\n">> \o ErrorMsg(e.kids[2])
      [] OTHER -> Str(e.ctx)

\* fmt.Errorf("%w: %v", sentinel, err): wraps the sentinel only; err gives text
ErrorfWV(sentinel, err) ==
    [typ |-> "wrapError", id |-> "",
     ctx |-> ErrorMsg(sentinel) \o <<": ">> \o ErrorMsg(err),
     kids |-> <<sentinel>>]

\* fmt.Errorf(prefix + ": %w", err), the way a caller adds context
ErrorfW(prefix, err) ==
    [typ |-> "wrapError", id |-> "",
     ctx |-> <<prefix, ": ">> \o ErrorMsg(err), kids |-> <<err>>]

\* errors.Join(a, b)
ErrorsJoin(a, b) ==
    [typ |-> "joinError", id |-> "", ctx |-> <<>>, kids |-> <<a, b>>]

\* Unwrap() error / Unwrap() []error
Unwrap(e) == IF e.typ \in {"wrapError", "joinError"} THEN e.kids ELSE <<>>

RECURSIVE ErrorsIs(_, _)
\* A faulty variant of errors.Is: ValidationError.Is compares its target with
\* ErrNotFound, the sentinel of the kind it was copied from.
ErrorsIsValidationAsNotFound(err, target) ==
    IF err = Nil \/ target = Nil THEN err = target
    ELSE \/ err = target
         \/ /\ err.typ \in {"NotFoundError", "ValidationError"}
            /\ ErrorsIs(target, ErrNotFound)
         \/ /\ err.typ = "InvalidUUIDError"
            /\ ErrorsIs(target, ErrInvalidUUID)
         \/ \E i \in 1..Len(Unwrap(err)) : ErrorsIs(Unwrap(err)[i], target)

\* errors.Is(err, target), with the Is(target) methods of the structured kinds
ErrorsIs(err, target) ==
    IF err = Nil \/ target = Nil THEN err = target
    ELSE \/ err = target
         \/ /\ err.typ = "NotFoundError"
            /\ ErrorsIs(target, ErrNotFound)
         \/ /\ err.typ = "ValidationError"
            /\ ErrorsIs(target, ErrValidation)
         \/ /\ err.typ = "InvalidUUIDError"
            /\ ErrorsIs(target, ErrInvalidUUID)
         \/ \E i \in 1..Len(Unwrap(err)) : ErrorsIs(Unwrap(err)[i], target)

RECURSIVE ErrorsAs(_, _)
\* errors.As(err, &target) for a target of type typ: the first node of that
\* type in the pre-order walk of the error tree, Nil when there is none
ErrorsAs(err, typ) ==
    IF err = Nil THEN Nil
    ELSE IF err.typ = typ THEN err
    ELSE LET ks == Unwrap(err)
             hits == {i \in 1..Len(ks) : ErrorsAs(ks[i], typ) # Nil}
         IN IF hits = {} THEN Nil
            ELSE ErrorsAs(ks[CHOOSE i \in hits : \A j \in hits : i <= j], typ)


----------------------------------------------------------------------------
(* http.ResponseWriter, as net/http and httptest.ResponseRecorder behave:  *)
(* the first WriteHeader fixes the status and the headers that are sent,   *)
(* later ones are ignored; Write sends 200 first if no status was written. *)

HeaderNames ==
    {"Content-Type", "X-Content-Type-Options",
     "Access-Control-Allow-Origin", "Access-Control-Allow-Credentials",
     "Access-Control-Allow-Methods", "Access-Control-Allow-Headers"}

NoHeaders == [h \in HeaderNames |-> ""]

\* httptest.NewRecorder(): nothing set, nothing written
NewRecorder ==
    [hdr |-> NoHeaders, wroteHeader |-> FALSE, status |-> 0,
     sent |-> NoHeaders, body |-> <<>>]

\* w.Header().Set(k, v)
HeaderSet(rw, k, v) == [rw EXCEPT !.hdr[k] = v]

\* w.WriteHeader(code)
WriteHeader(rw, code) ==
    IF rw.wroteHeader THEN rw
    ELSE [rw EXCEPT !.wroteHeader = TRUE, !.status = code, !.sent = rw.hdr]

StatusOK == 200

\* w.Write(chunk)
Write(rw, chunk) ==
    LET rw1 == WriteHeader(rw, StatusOK)
    IN [rw1 EXCEPT !.body = Append(@, chunk)]

\* a chunk of bytes that is not a JSON document
RawChunk(text) == <<[k |-> "", s |-> <<text>>, n |-> 0]>>

\* http.Error(w, text, code)
HttpError(rw, text, code) ==
    LET rw1 == HeaderSet(rw, "Content-Type", "text/plain; charset=utf-8")
        rw2 == HeaderSet(rw1, "X-Content-Type-Options", "nosniff")
    IN Write(WriteHeader(rw2, code), RawChunk(text))

----------------------------------------------------------------------------
(* pkg/problem: Problem, its constructors, HttpWriter                      *)

\* Problem{}: the zero value
EmptyProblem == [Title |-> "", Status |-> 0, Type |-> "", Detail |-> <<>>]

StatusBadRequest          == 400
StatusUnauthorized        == 401
StatusForbidden           == 403
StatusNotFound            == 404
StatusTeapot              == 418
StatusInternalServerError == 500

NewInternalServerProblem(detail) ==
    [Title |-> "Internal Server Error", Status |-> StatusInternalServerError,
     Type |-> "https://developer.mozilla.org/en-US/docs/Web/HTTP/Status/500",
     Detail |-> detail]

NewNotFoundProblem(detail) ==
    [Title |-> "Not Found", Status |-> StatusNotFound,
     Type |-> "https://developer.mozilla.org/en-US/docs/Web/HTTP/Status/404",
     Detail |-> detail]

NewValidateProblem(detail) ==
    [Title |-> "Validation Problem", Status |-> StatusBadRequest,
     Type |-> "https://developer.mozilla.org/en-US/docs/Web/HTTP/Status/400",
     Detail |-> detail]

NewUnauthorizedProblem(detail) ==
    [Title |-> "Unauthorized", Status |-> StatusUnauthorized,
     Type |-> "https://developer.mozilla.org/en-US/docs/Web/HTTP/Status/401",
     Detail |-> detail]

NewForbiddenProblem(detail) ==
    [Title |-> "Forbidden", Status |-> StatusForbidden,
     Type |-> "https://developer.mozilla.org/en-US/docs/Web/HTTP/Status/403",
     Detail |-> detail]

\* The custom problem of TestHttpWriter_buildProblem_WithCustomMapping
CustomProblem ==
    [Title |-> "Custom Error", Status |-> StatusTeapot,
     Type |-> "https://example.com/custom",
     Detail |-> <<"This is a custom error">>]

\* The HttpWriters of the model, named by their ProblemMapping:
\*   "New"    - New(): the mapping returns Problem{}
\*   "empty"  - NewWithMapping of a function that returns Problem{}
\*   "teapot" - NewWithMapping of a function that returns CustomProblem
\*   "domain" - NewWithMapping of a function that returns CustomProblem for
\*              errors that are ErrForbidden and Problem{} for all others
Mappings == {"New", "empty", "teapot", "domain"}

\* h.ProblemMapping(err)
ProblemMapping(h, err) ==
    IF h = "teapot" THEN CustomProblem
    ELSE IF h = "domain" /\ ErrorsIs(err, ErrForbidden) THEN CustomProblem
    ELSE EmptyProblem

\* A faulty variant of the switch: the internal-marker case and the default
\* case use the error's own message as detail
StandardProblemLeaky(err) ==
    IF ErrorsAs(err, "NotFoundError") # Nil
        THEN NewNotFoundProblem(ErrorMsg(err))
    ELSE IF ErrorsAs(err, "ValidationErrors") # Nil
        THEN NewValidateProblem(ErrorMsg(ErrorsAs(err, "ValidationErrors")))
    ELSE IF ErrorsIs(err, ErrUserAlreadyExists)
        THEN NewValidateProblem(<<"User already exists">>)
    ELSE IF ErrorsIs(err, ErrCredentialInvalid)
        THEN NewUnauthorizedProblem(<<"Invalid username or password">>)
    ELSE IF ErrorsIs(err, ErrForbidden)
        THEN NewForbiddenProblem(<<"Make sure you have the right permissions">>)
    ELSE IF ErrorsIs(err, ErrUnauthorized)
        THEN NewUnauthorizedProblem(<<"You must be logged in to access this resource">>)
    ELSE IF ErrorsIs(err, ErrInvalidUUID)
        THEN NewValidateProblem(<<"Invalid UUID format">>)
    ELSE IF ErrorsIs(err, ErrNotFound)
        THEN NewNotFoundProblem(<<"Resource not found">>)
    ELSE IF ErrorsIs(err, ErrInvalidPageOrSize)
        THEN NewValidateProblem(<<"Invalid page or size">>)
    ELSE IF ErrorsIs(err, ErrInvalidSortingField)
        THEN NewValidateProblem(<<"Invalid sorting field">>)
    ELSE NewInternalServerProblem(ErrorMsg(err))

\* The switch of WriteError: the first case that matches, in source order
StandardProblem(err) ==
    IF ErrorsAs(err, "NotFoundError") # Nil
        THEN NewNotFoundProblem(ErrorMsg(err))
    ELSE IF ErrorsAs(err, "ValidationErrors") # Nil
        THEN NewValidateProblem(ErrorMsg(ErrorsAs(err, "ValidationErrors")))
    ELSE IF ErrorsIs(err, ErrUserAlreadyExists)
        THEN NewValidateProblem(<<"User already exists">>)
    ELSE IF ErrorsIs(err, ErrCredentialInvalid)
        THEN NewUnauthorizedProblem(<<"Invalid username or password">>)
    ELSE IF ErrorsIs(err, ErrForbidden)
        THEN NewForbiddenProblem(<<"Make sure you have the right permissions">>)
    ELSE IF ErrorsIs(err, ErrUnauthorized)
        THEN NewUnauthorizedProblem(<<"You must be logged in to access this resource">>)
    ELSE IF ErrorsIs(err, ErrInvalidUUID)
        THEN NewValidateProblem(<<"Invalid UUID format">>)
    ELSE IF ErrorsIs(err, ErrNotFound)
        THEN NewNotFoundProblem(<<"Resource not found">>)
    ELSE IF ErrorsAs(err, "InternalServerError") # Nil
        THEN NewInternalServerProblem(<<"Internal server error">>)
    ELSE IF ErrorsIs(err, ErrInvalidPageOrSize)
        THEN NewValidateProblem(<<"Invalid page or size">>)
    ELSE IF ErrorsIs(err, ErrInvalidSortingField)
        THEN NewValidateProblem(<<"Invalid sorting field">>)
    ELSE NewInternalServerProblem(<<"Internal server error">>)

\* A faulty variant of the builder: the custom mapping is not asked
buildProblemIgnoringMapping(h, err) == StandardProblem(err)

\* The builder part of WriteError: custom mapping first, then the switch
buildProblem(h, err) ==
    LET problem == ProblemMapping(h, err)
    IN IF problem = EmptyProblem THEN StandardProblem(err) ELSE problem

\* json.Marshal(problem): one entry per struct field, keyed by its json tag
Marshal(problem) ==
    << [k |-> "title",  s |-> Str(<<problem.Title>>), n |-> 0],
       [k |-> "status", s |-> <<>>,                   n |-> problem.Status],
       [k |-> "type",   s |-> Str(<<problem.Type>>),  n |-> 0],
       [k |-> "detail", s |-> problem.Detail,         n |-> 0] >>

\* A faulty variant of WriteError: lines 92-94 (the nil check) left out
WriteErrorNoNilCheck(h, rw, err) ==
    LET problem == buildProblem(h, err)
        rw1 == HeaderSet(rw, "Content-Type", "application/problem+json")
        rw2 == WriteHeader(rw1, problem.Status)
    IN Write(rw2, Marshal(problem))

\* A faulty variant of WriteError: line 137 (w.WriteHeader) left out, so the
\* first Write sends 200
WriteErrorNoWriteHeader(h, rw, err) ==
    IF err = Nil THEN rw
    ELSE LET problem == buildProblem(h, err)
             rw1 == HeaderSet(rw, "Content-Type", "application/problem+json")
         IN Write(rw1, Marshal(problem))

\* HttpWriter.WriteError(ctx, w, err, logger): what it does to w
WriteError(h, rw, err) ==
    IF err = Nil THEN rw
    ELSE LET problem == buildProblem(h, err)
             rw1 == HeaderSet(rw, "Content-Type", "application/problem+json")
             rw2 == WriteHeader(rw1, problem.Status)
         IN Write(rw2, Marshal(problem))

\* HttpWriter.WriteError when json.Marshal(problem) returns an error: the
\* header and the status are set before Marshal is called (lines 136-137),
\* then http.Error is called with the text of the error (lines 139-143)
WriteErrorMarshalFails(h, rw, err) ==
    IF err = Nil THEN rw
    ELSE LET problem == buildProblem(h, err)
             rw1 == HeaderSet(rw, "Content-Type", "application/problem+json")
             rw2 == WriteHeader(rw1, problem.Status)
         IN HttpError(rw2, "json: marshal failed", StatusInternalServerError)

\* HttpWriter.WriteError: the log lines it emits (logger.Warn with zap.Error(err))
WriteErrorLog(h, err) ==
    IF err = Nil THEN <<>>
    ELSE LET problem == buildProblem(h, err)
         IN << [level |-> "warn", msg |-> <<"Handling ", problem.Title>>,
                status |-> problem.Status, detail |-> problem.Detail,
                error |-> ErrorMsg(err)] >>

\* A nil *http.Request
NoRequest == [uri |-> <<>>, path |-> "", query |-> ""]

\* httptest.NewRequest(method, target, nil): RequestURI keeps the target as it
\* came; URL.Path is the target up to the first "?", URL.RawQuery what follows
NewRequest(target) ==
    LET marks == {i \in 1..Len(target) : target[i] = "?"}
        cut   == IF marks = {} THEN Len(target) + 1
                 ELSE CHOOSE i \in marks : \A j \in marks : i <= j
    IN [uri   |-> target,
        path  |-> Str(SubSeq(target, 1, cut - 1))[1],
        query |-> IF cut < Len(target) THEN Str(SubSeq(target, cut + 1, Len(target)))[1]
                  ELSE ""]

\* A faulty variant of WriteErrorWithRequest: instance is taken from
\* r.RequestURI, which keeps the query string.
WriteErrorWithRequestURI(h, req, rw, err) ==
    IF err = Nil THEN rw
    ELSE LET problem == buildProblem(h, err)
             rw1 == HeaderSet(rw, "Content-Type", "application/problem+json")
             rw2 == WriteHeader(rw1, problem.Status)
             inst == IF req = NoRequest THEN <<>>
                     ELSE <<[k |-> "instance", s |-> req.uri, n |-> 0]>>
         IN Write(rw2, Marshal(problem) \o inst)

\* HttpWriter.WriteErrorWithRequest(ctx, r, w, err, logger): as WriteError,
\* the body carrying "instance" (the request's URL.Path) when a request is
\* given
WriteErrorWithRequest(h, req, rw, err) ==
    IF err = Nil THEN rw
    ELSE LET problem == buildProblem(h, err)
             rw1 == HeaderSet(rw, "Content-Type", "application/problem+json")
             rw2 == WriteHeader(rw1, problem.Status)
             inst == IF req = NoRequest THEN <<>>
                     ELSE <<[k |-> "instance", s |-> <<req.path>>, n |-> 0]>>
         IN Write(rw2, Marshal(problem) \o inst)


----------------------------------------------------------------------------
(* pkg/database: the PostgreSQL classifier                                 *)

\* pgx.ErrNoRows and context.DeadlineExceeded
ErrNoRows == ErrorsNew("pgx.ErrNoRows", "no rows in result set")

DeadlineExceeded ==
    [typ |-> "deadlineExceededError", id |-> "context.DeadlineExceeded",
     ctx |-> <<"context deadline exceeded">>, kids |-> <<>>]

\* *pgconn.PgError with the given Code
PgError(code) ==
    [typ |-> "PgError", id |-> code,
     ctx |-> <<"ERROR: ", "driver message", " (SQLSTATE ", code, ")">>,
     kids |-> <<>>]

PGErrUniqueViolation     == "23505"
PGErrForeignKeyViolation == "23503"
PGErrDeadlockDetected    == "40P01"

\* The default branch of the classifier's switch: the driver's code
WrapPgCode(err) ==
    LET pgErr == ErrorsAs(err, "PgError")
    IN IF pgErr = Nil THEN Nil
       ELSE IF pgErr.id = PGErrUniqueViolation
            THEN ErrorfWV(ErrUniqueViolation, err)
       ELSE IF pgErr.id = PGErrForeignKeyViolation
            THEN ErrorfWV(ErrForeignKeyViolation, err)
       ELSE IF pgErr.id = PGErrDeadlockDetected
            THEN ErrorfWV(ErrDeadlockDetected, err)
       ELSE Nil

\* if wrappedErr == nil { wrappedErr = InternalServerError{Source: err} }
OrInternal(wrappedErr, err) ==
    IF wrappedErr = Nil THEN InternalServerError(err) ELSE wrappedErr

\* WrapDBError(err, logger, operation): the error it returns
WrapDBError(err) ==
    IF err = Nil THEN Nil
    ELSE IF ErrorsIs(err, ErrNoRows)
         THEN ErrorfWV(ErrNotFound, err)
    ELSE IF ErrorsIs(err, DeadlineExceeded)
         THEN ErrorfWV(ErrQueryTimeout, err)
    ELSE OrInternal(WrapPgCode(err), err)

\* WrapDBErrorWithTracker(err, tracker, opDescription) of the earlier
\* revision: the switch of WrapDBError, its result handed to tracker.Fail,
\* and a new error "failed to <opDescription>" returned, which wraps nothing
WrapDBErrorWithTracker(err, opDescription) ==
    IF err = Nil THEN Nil
    ELSE [typ |-> "errorString", id |-> "WrapDBErrorWithTracker.finalErr",
          ctx |-> <<"failed to ", opDescription>>, kids |-> <<>>]

\* DBTracker.Fail(wrappedErr), called by WrapDBErrorWithTracker: one Warn line
TrackerLog(err, operation) ==
    IF err = Nil THEN <<>>
    ELSE << [level |-> "warn",
             msg |-> <<"DB operation ", operation, " failed: ">>
                        \o ErrorMsg(WrapDBError(err)),
             error |-> ErrorMsg(WrapDBError(err)), operation |-> operation,
             unknown |-> FALSE, table |-> "", key |-> "", value |-> ""] >>

\* A faulty variant of WrapDBErrorWithKeyValue: the deadline case comes
\* before the no-rows case
WrapDBErrorWithKeyValueDeadlineFirst(err, table, key, value) ==
    IF err = Nil THEN Nil
    ELSE IF ErrorsIs(err, DeadlineExceeded)
         THEN ErrorfWV(ErrQueryTimeout, err)
    ELSE IF ErrorsIs(err, ErrNoRows)
         THEN NewNotFoundError(table, key, value, "")
    ELSE OrInternal(WrapPgCode(err), err)

\* WrapDBErrorWithKeyValue(err, table, key, value, logger, operation)
WrapDBErrorWithKeyValue(err, table, key, value) ==
    IF err = Nil THEN Nil
    ELSE IF ErrorsIs(err, ErrNoRows)
         THEN NewNotFoundError(table, key, value, "")
    ELSE IF ErrorsIs(err, DeadlineExceeded)
         THEN ErrorfWV(ErrQueryTimeout, err)
    ELSE OrInternal(WrapPgCode(err), err)

\* database/sql.ErrNoRows
SqlErrNoRows == ErrorsNew("sql.ErrNoRows", "sql: no rows in result set")

\* mssql.Error with the given Number (the number is kept in decimal digits,
\* as every id of an error of the model is a string)
MssqlError(number) ==
    [typ |-> "mssql.Error", id |-> number,
     ctx |-> <<"mssql: ", "driver message">>, kids |-> <<>>]

MSSQLErrUniqueViolation     == "2627"
MSSQLErrUniqueIndex         == "2601"
MSSQLErrForeignKeyViolation == "547"
MSSQLErrDeadlockDetected    == "1205"

\* A faulty variant of the number switch: 2601 is not a case of it
WrapMssqlNumberWithout2601(err) ==
    LET mssqlErr == ErrorsAs(err, "mssql.Error")
    IN IF mssqlErr = Nil THEN Nil
       ELSE IF mssqlErr.id = MSSQLErrUniqueViolation
            THEN ErrorfWV(ErrUniqueViolation, err)
       ELSE IF mssqlErr.id = MSSQLErrForeignKeyViolation
            THEN ErrorfWV(ErrForeignKeyViolation, err)
       ELSE IF mssqlErr.id = MSSQLErrDeadlockDetected
            THEN ErrorfWV(ErrDeadlockDetected, err)
       ELSE Nil

\* The default branch of the SQL Server classifier's switch: the error number
WrapMssqlNumber(err) ==
    LET mssqlErr == ErrorsAs(err, "mssql.Error")
    IN IF mssqlErr = Nil THEN Nil
       ELSE IF mssqlErr.id \in {MSSQLErrUniqueViolation, MSSQLErrUniqueIndex}
            THEN ErrorfWV(ErrUniqueViolation, err)
       ELSE IF mssqlErr.id = MSSQLErrForeignKeyViolation
            THEN ErrorfWV(ErrForeignKeyViolation, err)
       ELSE IF mssqlErr.id = MSSQLErrDeadlockDetected
            THEN ErrorfWV(ErrDeadlockDetected, err)
       ELSE Nil

\* WrapMSSQLError(err, logger, operation): the error it returns
WrapMSSQLError(err) ==
    IF err = Nil THEN Nil
    ELSE IF ErrorsIs(err, SqlErrNoRows)
         THEN ErrorfWV(ErrNotFound, err)
    ELSE IF ErrorsIs(err, DeadlineExceeded)
         THEN ErrorfWV(ErrQueryTimeout, err)
    ELSE OrInternal(WrapMssqlNumber(err), err)

\* WrapMSSQLErrorWithKeyValue(err, table, key, value, logger, operation)
WrapMSSQLErrorWithKeyValue(err, table, key, value) ==
    IF err = Nil THEN Nil
    ELSE IF ErrorsIs(err, SqlErrNoRows)
         THEN NewNotFoundError(table, key, value, "")
    ELSE IF ErrorsIs(err, DeadlineExceeded)
         THEN ErrorfWV(ErrQueryTimeout, err)
    ELSE OrInternal(WrapMssqlNumber(err), err)

----------------------------------------------------------------------------
(* The errors the model hands to the classifier and to the writer          *)

\* errors of no kind of the taxonomy
OtherErr  == ErrorsNew("other1", "disk full")
OtherErr2 == ErrorsNew("other2", "dial tcp 10.0.0.7:5432: connection refused")

\* native driver errors
DBLeaves ==
    {ErrNoRows, DeadlineExceeded, OtherErr,
     PgError(PGErrUniqueViolation), PgError(PGErrForeignKeyViolation),
     PgError(PGErrDeadlockDetected), PgError("42P01")}

DBErrs ==
    {Nil} \cup DBLeaves
          \cup {ErrorfW("query", e) : e \in DBLeaves}
          \cup {ErrorsJoin(a, b) : a \in DBLeaves, b \in DBLeaves}

\* native errors of the SQL Server driver; 50000 is a number of no case
MSLeaves ==
    {SqlErrNoRows, DeadlineExceeded, OtherErr,
     MssqlError(MSSQLErrUniqueViolation), MssqlError(MSSQLErrUniqueIndex),
     MssqlError(MSSQLErrForeignKeyViolation),
     MssqlError(MSSQLErrDeadlockDetected), MssqlError("50000")}

MSErrs ==
    {Nil} \cup MSLeaves
          \cup {ErrorfW("query", e) : e \in MSLeaves}
          \cup {ErrorsJoin(a, b) : a \in MSLeaves, b \in MSLeaves}

Tables == {"users", ""}
Keys   == {"id", ""}
Values == {"abc", ""}

DBArgs ==
    {[keyed |-> FALSE, table |-> "", key |-> "", value |-> ""]}
    \cup [keyed : {TRUE}, table : Tables, key : Keys, value : Values]

\* the sentinels the switch of WriteError tests, in source order
SwitchSentinels ==
    {ErrUserAlreadyExists, ErrCredentialInvalid, ErrForbidden, ErrUnauthorized,
     ErrInvalidUUID, ErrNotFound, ErrInvalidPageOrSize, ErrInvalidSortingField}

JoinLeaves ==
    SwitchSentinels
    \cup {NewNotFoundError("users", "id", "abc", ""),
          ValidatorErrors("Key: 'User.Email' Error:Field validation for 'Email' failed on the 'email' tag"),
          NewValidationError("email", "Email format is invalid"),
          InternalServerError(OtherErr), OtherErr}

\* what the classifiers return for a timeout, a unique violation, a foreign
\* key violation and a deadlock
ClassifiedDBErrs ==
    {WrapDBError(e) : e \in {DeadlineExceeded, PgError(PGErrUniqueViolation),
                             PgError(PGErrForeignKeyViolation),
                             PgError(PGErrDeadlockDetected)}}
    \cup {WrapMSSQLError(MssqlError(MSSQLErrUniqueIndex))}

ProblemLeaves ==
    JoinLeaves
    \cup {ErrValidation, ErrInternalServer, OtherErr2,
          NewNotFoundError("users", "id", "abc", "no such user"),
          NewNotFoundError("", "", "", ""),
          NewValidationError("email", ""),
          NewValidationErrorWithErrors("Multiple validation errors occurred",
              <<"email: invalid format", "password: too short",
                "age: must be positive">>),
          NewValidationErrorWithErrors("Single validation error", <<>>),
          NewInvalidUUIDError("zz-not-a-uuid", ""),
          InternalServerError(PgError("42P01")),
          WrapDBError(ErrNoRows)}
    \cup ClassifiedDBErrs

ProblemErrs ==
    {Nil} \cup ProblemLeaves
          \cup {ErrorfW("GetUser", e) : e \in ProblemLeaves}
          \cup {ErrorsJoin(a, b) : a \in JoinLeaves, b \in JoinLeaves}

Requests ==
    {NoRequest,
     NewRequest(<<"/">>),
     NewRequest(<<"/api/v1/users">>),
     NewRequest(<<"/api/v1/search", "?", "q=test&limit=10">>)}

\* The states the caller may leave the ResponseWriter in before WriteError
CallerWriters ==
    {NewRecorder,
     HeaderSet(NewRecorder, "Content-Type", "text/html"),
     Write(WriteHeader(NewRecorder, StatusOK), RawChunk("partial page"))}


----------------------------------------------------------------------------
(* pkg/middleware: Set over Go slices                                      *)
(* A slice is a header [arr, len, cap] over a backing array of the heap;   *)
(* slots of an array beyond a slice's len hold "nil" until written.        *)

MaxSets == 3

Wrappers == {"A", "B"}

Procs == {"p1", "p2"}

\* s.middlewares as a sequence: the first len elements of the backing array
SliceElems(h, s) == [i \in 1..s.len |-> h[s.arr][i]]

\* A faulty variant of lines 16-17: no copy, the append goes onto
\* s.middlewares itself
MakeAlias(h, s) == [heap |-> h, slice |-> s]

\* make([]func, n) followed by copy(new, s): a fresh array, s's elements in it
MakeCopy(h, s) ==
    [heap  |-> Append(h, SliceElems(h, s)),
     slice |-> [arr |-> Len(h) + 1, len |-> s.len, cap |-> s.len]]

\* append(s, x): in place when there is spare capacity, else into a fresh
\* array of doubled capacity
GoAppend(h, s, x) ==
    IF s.len < s.cap
    THEN [heap  |-> [h EXCEPT ![s.arr][s.len + 1] = x],
          slice |-> [s EXCEPT !.len = @ + 1]]
    ELSE LET newcap == IF s.cap = 0 THEN 1 ELSE 2 * s.cap
         IN [heap  |-> Append(h, [i \in 1..newcap |->
                                    IF i <= s.len THEN h[s.arr][i]
                                    ELSE IF i = s.len + 1 THEN x ELSE "nil"]),
             slice |-> [arr |-> Len(h) + 1, len |-> s.len + 1, cap |-> newcap]]

RECURSIVE HandlerFuncLoop(_, _, _)
\* for i := len - 1; i >= 0; i-- { next = s.middlewares[i](next) }
\* A wrapper applied to next is the handler <<wrapper>> \o next.
HandlerFuncLoop(elems, i, next) ==
    IF i < 1 THEN next
    ELSE HandlerFuncLoop(elems, i - 1, <<elems[i]>> \o next)

\* A faulty variant of Set.HandlerFunc: the loop runs from the first element
\* up, which builds C(B(A(handler)))
HandlerFuncAscending(elems, next) ==
    HandlerFuncLoop([i \in 1..Len(elems) |-> elems[Len(elems) + 1 - i]],
                    Len(elems), next)

\* Set.HandlerFunc(next)
HandlerFunc(elems, next) == HandlerFuncLoop(elems, Len(elems), next)

\* the handler at the end of every chain
BaseHandler == <<"handler">>

IdleCaller == [pc |-> "idle", base |-> 0, mw |-> "nil",
               tmp |-> [arr |-> 0, len |-> 0, cap |-> 0]]

\* NewSet(middlewares...): the Sets the model starts from; a slice handed over
\* with s... may have spare capacity
NewSets ==
    {[elems |-> <<>>, cap |-> 0], [elems |-> <<"A">>, cap |-> 1],
     [elems |-> <<"A">>, cap |-> 2], [elems |-> <<"A", "B">>, cap |-> 3]}

ChainInit ==
    /\ \E b \in NewSets :
          /\ heap = << [i \in 1..b.cap |->
                          IF i <= Len(b.elems) THEN b.elems[i] ELSE "nil"] >>
          /\ sets = << [arr |-> 1, len |-> Len(b.elems), cap |-> b.cap] >>
          /\ made = << [from |-> 0, mw |-> "nil", seq |-> b.elems] >>
    /\ caller = [p \in Procs |-> IdleCaller]
    /\ handlerFn = BaseHandler
    /\ builtFrom = <<>>
    /\ cpc = "idle"
    /\ cdepth = 0
    /\ events = <<>>

InFlight == Cardinality({p \in Procs : caller[p].pc # "idle"})

\* Set.Append, lines 16-17: make and copy
AppendCopy(p) ==
    /\ caller[p].pc = "idle"
    /\ Len(sets) + InFlight < MaxSets
    /\ \E b \in 1..Len(sets), m \in Wrappers :
          LET r == MakeCopy(heap, sets[b])
          IN /\ heap' = r.heap
             /\ caller' = [caller EXCEPT ![p] =
                    [pc |-> "copied", base |-> b, mw |-> m, tmp |-> r.slice]]
    /\ UNCHANGED <<sets, made, handlerFn, builtFrom, cpc, cdepth, events>>
    /\ UNCHANGED <<w, probVars, dbVars, reqVars, corsVars, errVars>>

\* Set.Append, lines 19-20: append and return the new Set
AppendReturn(p) ==
    /\ caller[p].pc = "copied"
    /\ LET r == GoAppend(heap, caller[p].tmp, caller[p].mw)
       IN /\ heap' = r.heap
          /\ sets' = Append(sets, r.slice)
          /\ made' = Append(made,
                 [from |-> caller[p].base, mw |-> caller[p].mw,
                  seq |-> made[caller[p].base].seq \o <<caller[p].mw>>])
    /\ caller' = [caller EXCEPT ![p] = IdleCaller]
    /\ UNCHANGED <<handlerFn, builtFrom, cpc, cdepth, events>>
    /\ UNCHANGED <<w, probVars, dbVars, reqVars, corsVars, errVars>>

\* Set.HandlerFunc(handler) on one of the Sets, and the first request arrives
BuildHandler ==
    /\ cpc \in {"idle", "done"}
    /\ \E i \in 1..Len(sets) :
          /\ handlerFn' = HandlerFunc(SliceElems(heap, sets[i]), BaseHandler)
          /\ builtFrom' = made[i].seq
    /\ cpc' = "call"
    /\ cdepth' = 0
    /\ events' = <<>>
    /\ UNCHANGED <<heap, sets, made, caller>>
    /\ UNCHANGED <<w, probVars, dbVars, reqVars, corsVars, errVars>>

\* the wrapper at depth cdepth + 1 is entered and calls next
EnterWrapper ==
    /\ cpc = "call"
    /\ handlerFn[cdepth + 1] # "handler"
    /\ events' = Append(events, <<"enter", handlerFn[cdepth + 1]>>)
    /\ cdepth' = cdepth + 1
    /\ UNCHANGED <<heap, sets, made, caller, handlerFn, builtFrom, cpc>>
    /\ UNCHANGED <<w, probVars, dbVars, reqVars, corsVars, errVars>>

\* the handler itself runs and returns
RunHandler ==
    /\ cpc = "call"
    /\ handlerFn[cdepth + 1] = "handler"
    /\ events' = Append(events, <<"handler", "handler">>)
    /\ cpc' = "ret"
    /\ UNCHANGED <<heap, sets, made, caller, handlerFn, builtFrom, cdepth>>
    /\ UNCHANGED <<w, probVars, dbVars, reqVars, corsVars, errVars>>

\* next has returned into the wrapper at depth cdepth, which returns
LeaveWrapper ==
    /\ cpc = "ret"
    /\ cdepth > 0
    /\ events' = Append(events, <<"leave", handlerFn[cdepth]>>)
    /\ cdepth' = cdepth - 1
    /\ UNCHANGED <<heap, sets, made, caller, handlerFn, builtFrom, cpc>>
    /\ UNCHANGED <<w, probVars, dbVars, reqVars, corsVars, errVars>>

\* the outermost wrapper has returned to the server
RequestServed ==
    /\ cpc = "ret"
    /\ cdepth = 0
    /\ cpc' = "done"
    /\ UNCHANGED <<heap, sets, made, caller, handlerFn, builtFrom, cdepth, events>>
    /\ UNCHANGED <<w, probVars, dbVars, reqVars, corsVars, errVars>>


----------------------------------------------------------------------------
(* pkg/trace: TraceMiddleware and RecoverMiddleware around a handler       *)

MaxRequests == 2

MaxHandlerOps == 2

\* The chains the requests run through, in append order
Chains == {<<"Trace", "Recover">>, <<"Recover", "Trace">>, <<"Recover">>, <<"Trace">>}

NoPanic == [kind |-> "none", text |-> <<>>, err |-> Nil]

\* panic("boom") and panic(err)
PanicPayloads ==
    {[kind |-> "string", text |-> <<"boom">>, err |-> Nil],
     [kind |-> "error", text |-> <<>>, err |-> OtherErr]}

\* PanicRecoveryError(recover()): (needRecovery, errString)
PanicRecoveryError(v) ==
    IF v = NoPanic THEN [need |-> FALSE, errString |-> <<>>]
    ELSE IF v.kind = "error"
         THEN [need |-> TRUE, errString |-> ErrorMsg(v.err)]
         ELSE [need |-> TRUE, errString |-> v.text]

\* per wrapper: how often its span was started and ended, and (ghost) the
\* position of its span.End() among the span ends of the request
NoSpans ==
    [m \in {"Trace", "Recover"} |-> [started |-> 0, ended |-> 0, endSeq |-> 0]]

SpanStart(sp, m) == [sp EXCEPT ![m].started = @ + 1]

SpanEnd(sp, m) ==
    [sp EXCEPT ![m].ended = @ + 1,
               ![m].endSeq = sp["Trace"].ended + sp["Recover"].ended + 1]

\* a nil *bytes.Buffer
NilBuffer == [isNil |-> TRUE, chunks |-> <<>>]

\* (*bytes.Buffer).String(): "<nil>" for a nil receiver
BufferString(b) ==
    IF b.isNil THEN [isNil |-> TRUE, chunks |-> <<RawChunk("<nil>")>>]
    ELSE [isNil |-> FALSE, chunks |-> b.chunks]

\* crw := &CustomResponseWriter{ResponseWriter: w}: StatusCode and Body are
\* left at their zero values
NewCustomResponseWriter == [StatusCode |-> 0, Body |-> NilBuffer]

\* CustomResponseWriter.Write: what it does to its own fields
CrwWrite(c, chunk) ==
    IF c.Body.isNil THEN c ELSE [c EXCEPT !.Body.chunks = Append(@, chunk)]

\* the request bodies clients send: none, and one that takes two reads
RequestBodies == {<<>>, <<"{\"title\":", "\"hello\"}">>}

\* A faulty variant of the body handling: r.Body is not replaced after it was
\* read to its end
TraceReadBodyNoRestore(dbg, body, fault) ==
    IF ~dbg THEN [ok |-> TRUE, bodyBytes |-> <<>>, rbody |-> body, reads |-> 0]
    ELSE IF fault = "read"
         THEN [ok |-> FALSE, bodyBytes |-> SubSeq(body, 1, Len(body) - 1),
               rbody |-> IF body = <<>> THEN <<>>
                         ELSE SubSeq(body, Len(body), Len(body)),
               reads |-> 1]
    ELSE IF fault = "close"
         THEN [ok |-> FALSE, bodyBytes |-> body, rbody |-> <<>>, reads |-> 1]
    ELSE [ok |-> TRUE, bodyBytes |-> body, rbody |-> <<>>, reads |-> 1]

\* TraceMiddleware lines 102-119: with debug, io.ReadAll(r.Body), r.Body.Close()
\* and r.Body = io.NopCloser(bytes.NewBuffer(bodyBytes)); a failing read
\* stops before the end of the body
TraceReadBody(dbg, body, fault) ==
    IF ~dbg THEN [ok |-> TRUE, bodyBytes |-> <<>>, rbody |-> body, reads |-> 0]
    ELSE IF fault = "read"
         THEN [ok |-> FALSE, bodyBytes |-> SubSeq(body, 1, Len(body) - 1),
               rbody |-> IF body = <<>> THEN <<>>
                         ELSE SubSeq(body, Len(body), Len(body)),
               reads |-> 1]
    ELSE IF fault = "close"
         THEN [ok |-> FALSE, bodyBytes |-> body, rbody |-> <<>>, reads |-> 1]
    ELSE [ok |-> TRUE, bodyBytes |-> body, rbody |-> body, reads |-> 1]

\* A faulty variant of CustomResponseWriter.WriteHeader: the code is passed
\* on but not recorded
CrwWriteHeaderNoRecord(c, code) == c

\* CustomResponseWriter.WriteHeader: what it does to its own field
CrwWriteHeader(c, code) == [c EXCEPT !.StatusCode = code]

\* Is the ResponseWriter seen by the frame at index d the CustomResponseWriter
\* of a TraceMiddleware frame further out?
ThroughCrw(d) == \E i \in 1..(d - 1) : handlerFn[i] = "Trace"

\* writeBodyHandlingError(w, err, logger): what it does to w
writeBodyHandlingError(rw) ==
    LET p == NewInternalServerProblem(<<"Internal server error">>)
        rw1 == HeaderSet(rw, "Content-Type", "application/problem+json")
        rw2 == WriteHeader(rw1, p.Status)
    IN Write(rw2, Marshal(p))

\* The completion log of TraceMiddleware, by crw.StatusCode; request_body and
\* response_body are fields of the line only for status 500 with debug
TraceCompletionLog(status, dbg, bytes, c) ==
    LET plain(level, msg) ==
            [by |-> "Trace", level |-> level, msg |-> msg, status |-> status,
             detail |-> FALSE, request_body |-> <<>>,
             response_body |-> NilBuffer]
    IN IF status >= 100 /\ status < 400
       THEN plain("debug", <<"Request completed">>)
       ELSE IF status >= 400 /\ status < 500
       THEN plain("error", <<"Client request rejected">>)
       ELSE IF status = StatusInternalServerError /\ dbg
       THEN [by |-> "Trace", level |-> "error",
             msg |-> <<"Internal server error occurred">>, status |-> status,
             detail |-> TRUE, request_body |-> bytes,
             response_body |-> BufferString(c.Body)]
       ELSE plain("error", <<"Internal server error occurred">>)

\* A faulty variant of the deferred function: it ends the span but does not
\* call recover(), so the panic goes on
RecoverDeferredNoRecover(pv, rw, sp) ==
    [panic |-> pv, rw |-> rw, wrote |-> FALSE,
     spans |-> SpanEnd(sp, "Recover"), log |-> <<>>]

\* The deferred function of RecoverMiddleware, run with the payload recover()
\* returns: the panic is stopped, the problem written when there was one, and
\* the span ended
RecoverDeferred(pv, rw, sp) ==
    LET r == PanicRecoveryError(pv)
    IN [panic |-> NoPanic,
        rw    |-> IF r.need THEN WriteError("New", rw, ErrInternalServer) ELSE rw,
        wrote |-> r.need,
        spans |-> SpanEnd(sp, "Recover"),
        log   |-> IF r.need
                  THEN <<[by |-> "Recover", level |-> "error",
                          msg |-> <<"Recovered from panic: ">> \o r.errString]>>
                       \o [i \in 1..Len(WriteErrorLog("New", ErrInternalServer)) |->
                             [by |-> "WriteError", level |-> "warn",
                              msg |-> WriteErrorLog("New", ErrInternalServer)[i].msg]]
                  ELSE <<>>]

\* the logger the constructors are given: no trace fields
NoFields == [m \in {"Trace", "Recover"} |-> <<>>]

\* logutil.WithContext(ctx, logger), with ctx holding the span the wrapper m
\* started for request n: logger.With(trace_id).With(span_id)
WithContext(n, m, logger) ==
    logger \o <<[key |-> "trace_id", req |-> n, by |-> "trace"],
                [key |-> "span_id",  req |-> n, by |-> m]>>

\* defer span.End() of TraceMiddleware, on return and on panic alike
TraceDeferred(sp) == SpanEnd(sp, "Trace")

ReqInit ==
    /\ \E c \in Chains : handlerFn = HandlerFunc(c, BaseHandler)
    /\ debug \in BOOLEAN
    /\ rpc = "idle"
    /\ rdepth = 0
    /\ panicVal = NoPanic
    /\ bodyFault = "none"
    /\ spans = NoSpans
    /\ crw = NewCustomResponseWriter
    /\ hops = 0
    /\ hw = NewRecorder
    /\ reqNo = 0
    /\ panicked = <<FALSE, FALSE>>
    /\ rlog = <<>>
    /\ loggers = NoFields
    /\ reqBody = <<>>
    /\ rbody = <<>>
    /\ bodyBytes = <<>>
    /\ bodyReads = 0
    /\ handlerCalls = 0

\* the frame about to be called / the frame next returns into
Callee == handlerFn[rdepth + 1]

Frame == handlerFn[rdepth]

\* a request arrives at the outermost wrapper
StartRequest ==
    /\ rpc \in {"idle", "done"}
    /\ reqNo < MaxRequests
    /\ reqNo' = reqNo + 1
    /\ bodyFault' \in {"none", "read", "close"}
    /\ rpc' = "call"
    /\ rdepth' = 0
    /\ w' = NewRecorder
    /\ hw' = NewRecorder
    /\ crw' = NewCustomResponseWriter
    /\ spans' = NoSpans
    /\ hops' = 0
    /\ rlog' = <<>>
    /\ panicked' = <<panicked[2], FALSE>>
    /\ reqBody' \in RequestBodies
    /\ rbody' = reqBody'
    /\ bodyBytes' = <<>>
    /\ bodyReads' = 0
    /\ handlerCalls' = IF Len(handlerFn) = 1 THEN 1 ELSE 0
    /\ UNCHANGED <<debug, panicVal>>
    /\ UNCHANGED loggers
    /\ UNCHANGED <<chainVars, probVars, dbVars, corsVars, errVars>>

\* TraceMiddleware up to next(crw, r): the span starts; with debug the body is
\* read, and a failure is answered and returned from (the deferred span.End runs)
EnterTrace ==
    /\ rpc = "call"
    /\ Callee = "Trace"
    /\ IF ~TraceReadBody(debug, rbody, bodyFault).ok
       THEN /\ w' = writeBodyHandlingError(w)
            /\ spans' = TraceDeferred(SpanStart(spans, "Trace"))
            /\ rlog' = Append(rlog, [by |-> "Trace", level |-> "warn",
                                     msg |-> <<"Handling I/O with request body in TraceMiddleware">>])
            /\ rpc' = "ret"
            /\ UNCHANGED <<rdepth, crw>>
       ELSE /\ spans' = SpanStart(spans, "Trace")
            /\ crw' = NewCustomResponseWriter
            /\ rdepth' = rdepth + 1
            /\ UNCHANGED <<w, rlog, rpc>>
    /\ LET rb == TraceReadBody(debug, rbody, bodyFault)
       IN /\ bodyBytes' = rb.bodyBytes
          /\ rbody' = rb.rbody
          /\ bodyReads' = bodyReads + rb.reads
          /\ handlerCalls' = IF rb.ok /\ handlerFn[rdepth + 2] = "handler"
                             THEN handlerCalls + 1 ELSE handlerCalls
    /\ UNCHANGED <<debug, panicVal, bodyFault, hops, hw, reqNo, panicked, reqBody>>
    /\ loggers' = [loggers EXCEPT !["Trace"] = WithContext(reqNo, "Trace", @)]
    /\ UNCHANGED <<chainVars, probVars, dbVars, corsVars, errVars>>

\* RecoverMiddleware up to next(w, r): the span starts, the defer is armed
EnterRecover ==
    /\ rpc = "call"
    /\ Callee = "Recover"
    /\ spans' = SpanStart(spans, "Recover")
    /\ rdepth' = rdepth + 1
    /\ UNCHANGED <<w, debug, rpc, panicVal, bodyFault, crw, hops, hw, reqNo,
                   panicked, rlog>>
    /\ loggers' = [loggers EXCEPT !["Recover"] = WithContext(reqNo, "Recover", @)]
    /\ handlerCalls' = IF handlerFn[rdepth + 2] = "handler"
                       THEN handlerCalls + 1 ELSE handlerCalls
    /\ UNCHANGED <<reqBody, rbody, bodyBytes, bodyReads>>
    /\ UNCHANGED <<chainVars, probVars, dbVars, corsVars, errVars>>

\* the handler calls w.WriteHeader(code)
HandlerWriteHeader ==
    /\ rpc = "call"
    /\ Callee = "handler"
    /\ hops < MaxHandlerOps
    /\ \E code \in {StatusOK, StatusNotFound} :
          /\ w' = WriteHeader(w, code)
          /\ hw' = WriteHeader(hw, code)
          /\ crw' = IF ThroughCrw(rdepth + 1) THEN CrwWriteHeader(crw, code) ELSE crw
    /\ hops' = hops + 1
    /\ UNCHANGED <<debug, rpc, rdepth, panicVal, bodyFault, spans, reqNo,
                   panicked, rlog>>
    /\ UNCHANGED loggers
    /\ UNCHANGED bodyVars
    /\ UNCHANGED <<chainVars, probVars, dbVars, corsVars, errVars>>

\* the handler calls w.Write(bytes)
HandlerWrite ==
    /\ rpc = "call"
    /\ Callee = "handler"
    /\ hops < MaxHandlerOps
    /\ w' = Write(w, RawChunk("partial body"))
    /\ hw' = Write(hw, RawChunk("partial body"))
    /\ crw' = IF ThroughCrw(rdepth + 1)
              THEN CrwWrite(crw, RawChunk("partial body")) ELSE crw
    /\ hops' = hops + 1
    /\ UNCHANGED <<debug, rpc, rdepth, panicVal, bodyFault, spans, reqNo,
                   panicked, rlog>>
    /\ UNCHANGED loggers
    /\ UNCHANGED bodyVars
    /\ UNCHANGED <<chainVars, probVars, dbVars, corsVars, errVars>>

\* the handler returns
HandlerReturn ==
    /\ rpc = "call"
    /\ Callee = "handler"
    /\ rpc' = "ret"
    /\ UNCHANGED <<w, debug, rdepth, panicVal, bodyFault, spans, crw, hops, hw,
                   reqNo, panicked, rlog>>
    /\ UNCHANGED loggers
    /\ UNCHANGED bodyVars
    /\ UNCHANGED <<chainVars, probVars, dbVars, corsVars, errVars>>

\* the handler panics
HandlerPanic ==
    /\ rpc = "call"
    /\ Callee = "handler"
    /\ panicVal' \in PanicPayloads
    /\ rpc' = "unwind"
    /\ panicked' = <<panicked[1], TRUE>>
    /\ UNCHANGED <<w, debug, rdepth, bodyFault, spans, crw, hops, hw, reqNo, rlog>>
    /\ UNCHANGED loggers
    /\ UNCHANGED bodyVars
    /\ UNCHANGED <<chainVars, probVars, dbVars, corsVars, errVars>>

\* next returned into TraceMiddleware: the completion log, then span.End()
LeaveTrace ==
    /\ rpc = "ret"
    /\ rdepth > 0
    /\ Frame = "Trace"
    /\ rlog' = Append(rlog, TraceCompletionLog(crw.StatusCode, debug, bodyBytes, crw))
    /\ spans' = TraceDeferred(spans)
    /\ rdepth' = rdepth - 1
    /\ UNCHANGED <<w, debug, rpc, panicVal, bodyFault, crw, hops, hw, reqNo, panicked>>
    /\ UNCHANGED loggers
    /\ UNCHANGED bodyVars
    /\ UNCHANGED <<chainVars, probVars, dbVars, corsVars, errVars>>

\* a panic unwinds through TraceMiddleware: only the deferred span.End() runs
UnwindTrace ==
    /\ rpc = "unwind"
    /\ rdepth > 0
    /\ Frame = "Trace"
    /\ spans' = TraceDeferred(spans)
    /\ rdepth' = rdepth - 1
    /\ UNCHANGED <<w, debug, rpc, panicVal, bodyFault, crw, hops, hw, reqNo,
                   panicked, rlog>>
    /\ UNCHANGED loggers
    /\ UNCHANGED bodyVars
    /\ UNCHANGED <<chainVars, probVars, dbVars, corsVars, errVars>>

\* RecoverMiddleware's deferred function, after next returned or panicked
LeaveRecover ==
    /\ rpc \in {"ret", "unwind"}
    /\ rdepth > 0
    /\ Frame = "Recover"
    /\ LET r == RecoverDeferred(panicVal, w, spans)
       IN /\ panicVal' = r.panic
          /\ w' = r.rw
          /\ crw' = IF r.wrote /\ ThroughCrw(rdepth)
                    THEN CrwWrite(CrwWriteHeader(crw, StatusInternalServerError),
                                  Marshal(buildProblem("New", ErrInternalServer)))
                    ELSE crw
          /\ spans' = r.spans
          /\ rlog' = rlog \o r.log
          /\ rpc' = IF r.panic = NoPanic THEN "ret" ELSE "unwind"
    /\ rdepth' = rdepth - 1
    /\ UNCHANGED <<debug, bodyFault, hops, hw, reqNo, panicked>>
    /\ UNCHANGED loggers
    /\ UNCHANGED bodyVars
    /\ UNCHANGED <<chainVars, probVars, dbVars, corsVars, errVars>>

\* the outermost wrapper is left: the request is over, or the panic reaches
\* the caller
EndRequest ==
    /\ rpc \in {"ret", "unwind"}
    /\ rdepth = 0
    /\ rpc' = IF rpc = "unwind" THEN "crashed" ELSE "done"
    /\ UNCHANGED <<w, debug, rdepth, panicVal, bodyFault, spans, crw, hops, hw,
                   reqNo, panicked, rlog>>
    /\ UNCHANGED loggers
    /\ UNCHANGED bodyVars
    /\ UNCHANGED <<chainVars, probVars, dbVars, corsVars, errVars>>

\* one step of the request in flight
RequestStep ==
    \/ EnterTrace \/ EnterRecover
    \/ HandlerWriteHeader \/ HandlerWrite \/ HandlerReturn \/ HandlerPanic
    \/ LeaveTrace \/ UnwindTrace \/ LeaveRecover
    \/ EndRequest


----------------------------------------------------------------------------
(* pkg/cors: CORSMiddleware around a downstream handler                    *)

\* slices.Contains(list, x)
Contains(list, x) == \E i \in 1..Len(list) : list[i] = x

NoCorsRequest == [origin |-> "", method |-> ""]

Origins == {"", "http://good.example", "http://evil.example"}

Methods == {"GET", "POST", "OPTIONS"}

\* the allow-lists the wrapper is built with
AllowLists ==
    {<<>>, <<"http://good.example">>, <<"*">>,
     <<"http://good.example", "*">>,
     <<"http://other.example", "http://good.example">>}

\* what the downstream handler does to w
DownstreamCodes == {StatusOK, StatusNotFound}

Downstream(rw, code) ==
    Write(WriteHeader(HeaderSet(rw, "Content-Type", "application/json"), code),
          RawChunk("handler body"))

\* lines 31-32: the fixed headers
SetFixedHeaders(rw) ==
    HeaderSet(HeaderSet(rw, "Access-Control-Allow-Methods",
                            "GET, POST, PUT, DELETE, OPTIONS"),
              "Access-Control-Allow-Headers", "Content-Type, Authorization")

\* lines 20-21 and 23-24: the headers of an allowed origin
SetOriginHeaders(rw, origin) ==
    HeaderSet(HeaderSet(rw, "Access-Control-Allow-Origin", origin),
              "Access-Control-Allow-Credentials", "true")

\* the outcome of lines 27-29: the warning and the 403
Disallowed(r, rw) ==
    [rw   |-> HttpError(rw, "CORS not allowed", StatusForbidden),
     next |-> FALSE,
     log  |-> <<[level |-> "warn",
                 msg |-> <<"CORS request from disallowed origin">>,
                 origin |-> r.origin]>>]

\* A faulty variant of the closure: the return of line 29 left out, so that
\* the downstream handler runs after the 403
CORSMiddlewareNoReturn(allow, r, rw) ==
    IF r.origin = ""
    THEN [rw |-> rw, next |-> TRUE, log |-> <<>>]
    ELSE IF Contains(allow, "*") \/ Contains(allow, r.origin)
    THEN LET rw1 == SetFixedHeaders(SetOriginHeaders(rw, r.origin))
         IN IF r.method = "OPTIONS"
            THEN [rw |-> WriteHeader(rw1, StatusOK), next |-> FALSE, log |-> <<>>]
            ELSE [rw |-> rw1, next |-> TRUE, log |-> <<>>]
    ELSE [Disallowed(r, rw) EXCEPT !.next = TRUE]

\* A faulty variant of the closure: a disallowed origin is not turned away
CORSMiddlewareNo403(allow, r, rw) ==
    IF r.origin = ""
    THEN [rw |-> rw, next |-> TRUE, log |-> <<>>]
    ELSE LET rw0 == IF Contains(allow, "*") \/ Contains(allow, r.origin)
                    THEN SetOriginHeaders(rw, r.origin) ELSE rw
             rw1 == SetFixedHeaders(rw0)
         IN IF r.method = "OPTIONS"
            THEN [rw |-> WriteHeader(rw1, StatusOK), next |-> FALSE, log |-> <<>>]
            ELSE [rw |-> rw1, next |-> TRUE, log |-> <<>>]

\* A faulty variant of the closure: lines 34-37 (OPTIONS) left out
CORSMiddlewareNoPreflight(allow, r, rw) ==
    IF r.origin = ""
    THEN [rw |-> rw, next |-> TRUE, log |-> <<>>]
    ELSE IF Contains(allow, "*") \/ Contains(allow, r.origin)
    THEN [rw |-> SetFixedHeaders(SetOriginHeaders(rw, r.origin)),
          next |-> TRUE, log |-> <<>>]
    ELSE Disallowed(r, rw)

\* The closure of the earlier revision (src/unnamed/part_008): no test for a
\* missing Origin header, and "*" sent for a wildcard allow-list
CORSMiddlewareEarlier(allow, r, rw) ==
    IF Contains(allow, "*") \/ Contains(allow, r.origin)
    THEN LET rw0 == IF Contains(allow, "*")
                    THEN HeaderSet(rw, "Access-Control-Allow-Origin", "*")
                    ELSE SetOriginHeaders(rw, r.origin)
             rw1 == SetFixedHeaders(rw0)
         IN IF r.method = "OPTIONS"
            THEN [rw |-> WriteHeader(rw1, StatusOK), next |-> FALSE, log |-> <<>>]
            ELSE [rw |-> rw1, next |-> TRUE, log |-> <<>>]
    ELSE Disallowed(r, rw)

\* A faulty variant of the closure: line 32 (Allow-Headers) left out
CORSMiddlewareNoAllowHeaders(allow, r, rw) ==
    IF r.origin = ""
    THEN [rw |-> rw, next |-> TRUE, log |-> <<>>]
    ELSE IF Contains(allow, "*") \/ Contains(allow, r.origin)
    THEN LET rw1 == HeaderSet(SetOriginHeaders(rw, r.origin),
                              "Access-Control-Allow-Methods",
                              "GET, POST, PUT, DELETE, OPTIONS")
         IN IF r.method = "OPTIONS"
            THEN [rw |-> WriteHeader(rw1, StatusOK), next |-> FALSE, log |-> <<>>]
            ELSE [rw |-> rw1, next |-> TRUE, log |-> <<>>]
    ELSE Disallowed(r, rw)

\* The closure CORSMiddleware returns, up to its return or its call of next:
\* what it does to w, whether it calls next, and what it logs
CORSMiddleware(allow, r, rw) ==
    IF r.origin = ""
    THEN [rw |-> rw, next |-> TRUE, log |-> <<>>]
    ELSE IF Contains(allow, "*") \/ Contains(allow, r.origin)
    THEN LET rw1 == SetFixedHeaders(SetOriginHeaders(rw, r.origin))
         IN IF r.method = "OPTIONS"
            THEN [rw |-> WriteHeader(rw1, StatusOK), next |-> FALSE, log |-> <<>>]
            ELSE [rw |-> rw1, next |-> TRUE, log |-> <<>>]
    ELSE Disallowed(r, rw)

CorsInit ==
    /\ allowOrigin \in AllowLists
    /\ creq = NoCorsRequest
    /\ corsPc = "idle"
    /\ nextCalls = 0
    /\ nextReq = NoCorsRequest
    /\ corsLog = <<>>
    /\ w = NewRecorder

\* a request arrives at the wrapper
CORSRequest ==
    /\ corsPc \in {"idle", "done"}
    /\ creq' \in [origin : Origins, method : Methods]
    /\ corsPc' = "call"
    /\ nextCalls' = 0
    /\ nextReq' = NoCorsRequest
    /\ corsLog' = <<>>
    /\ w' = NewRecorder
    /\ UNCHANGED allowOrigin
    /\ UNCHANGED <<chainVars, probVars, dbVars, reqVars, errVars>>

\* the wrapper runs, up to its return or to next.ServeHTTP(w, r)
CORSServe ==
    /\ corsPc = "call"
    /\ LET r == CORSMiddleware(allowOrigin, creq, w)
       IN /\ w' = r.rw
          /\ corsLog' = r.log
          /\ corsPc' = IF r.next THEN "next" ELSE "done"
    /\ UNCHANGED <<allowOrigin, creq, nextCalls, nextReq>>
    /\ UNCHANGED <<chainVars, probVars, dbVars, reqVars, errVars>>

\* next.ServeHTTP(w, r): the downstream handler runs and the wrapper returns
CORSDownstream ==
    /\ corsPc = "next"
    /\ nextCalls' = nextCalls + 1
    /\ nextReq' = creq
    /\ \E code \in DownstreamCodes : w' = Downstream(w, code)
    /\ corsPc' = "done"
    /\ UNCHANGED <<allowOrigin, creq, corsLog>>
    /\ UNCHANGED <<chainVars, probVars, dbVars, reqVars, errVars>>

----------------------------------------------------------------------------
(* Calls of the problem writer and of the classifier                       *)

\* what the client receives: status, the headers sent with it, the body
Wire(rw) == [status |-> rw.status, headers |-> rw.sent, body |-> rw.body]

\* an error of no kind of the taxonomy, the database-internal marker aside
OfNoKind(err) ==
    /\ err # Nil
    /\ ErrorsAs(err, "NotFoundError") = Nil
    /\ ErrorsAs(err, "ValidationErrors") = Nil
    /\ \A t \in SwitchSentinels \cup {ErrValidation} : ~ErrorsIs(err, t)

ProbInit ==
    /\ w \in CallerWriters
    /\ w0 = w
    /\ perr = Nil
    /\ mapping = "New"
    /\ preq = NoRequest
    /\ ppc = "ready"
    /\ built = EmptyProblem
    /\ plog = <<>>
    /\ sent500 = {}

\* hw.WriteError(ctx, w, err, logger)
CallWriteError ==
    /\ ppc = "ready"
    /\ \E e \in ProblemErrs, h \in Mappings :
          /\ perr' = e
          /\ mapping' = h
          /\ w' = WriteError(h, w, e)
          /\ built' = IF e = Nil THEN EmptyProblem ELSE buildProblem(h, e)
          /\ plog' = WriteErrorLog(h, e)
          /\ sent500' = IF OfNoKind(e) /\ h \in {"New", "empty"} /\ w = NewRecorder
                        THEN sent500 \cup {Wire(WriteError(h, w, e))}
                        ELSE sent500
    /\ preq' = NoRequest
    /\ ppc' = "WriteError"
    /\ UNCHANGED w0
    /\ UNCHANGED <<chainVars, dbVars, reqVars, corsVars, errVars>>

\* hw.WriteErrorWithRequest(ctx, r, w, err, logger)
CallWriteErrorWithRequest ==
    /\ ppc = "ready"
    /\ \E e \in ProblemErrs, h \in Mappings, r \in Requests :
          /\ perr' = e
          /\ mapping' = h
          /\ preq' = r
          /\ w' = WriteErrorWithRequest(h, r, w, e)
          /\ built' = IF e = Nil THEN EmptyProblem ELSE buildProblem(h, e)
          /\ plog' = WriteErrorLog(h, e)
    /\ ppc' = "WriteErrorWithRequest"
    /\ UNCHANGED <<w0, sent500>>
    /\ UNCHANGED <<chainVars, dbVars, reqVars, corsVars, errVars>>

\* hw.WriteError(ctx, w, err, logger) with json.Marshal failing
CallWriteErrorMarshalFails ==
    /\ ppc = "ready"
    /\ \E e \in ProblemLeaves \cup {Nil}, h \in Mappings :
          /\ perr' = e
          /\ mapping' = h
          /\ w' = WriteErrorMarshalFails(h, w, e)
          /\ built' = IF e = Nil THEN EmptyProblem ELSE buildProblem(h, e)
          /\ plog' = IF e = Nil THEN <<>>
                     ELSE WriteErrorLog(h, e)
                          \o << [level |-> "error",
                                 msg |-> <<"Failed to marshal problem response">>,
                                 status |-> 0, detail |-> <<>>,
                                 error |-> <<"json: marshal failed">>] >>
    /\ preq' = NoRequest
    /\ ppc' = "WriteErrorMarshalFails"
    /\ UNCHANGED <<w0, sent500>>
    /\ UNCHANGED <<chainVars, dbVars, reqVars, corsVars, errVars>>

\* the next call, on a ResponseWriter in any state a caller may leave it in
NextCall ==
    /\ ppc # "ready"
    /\ ppc' = "ready"
    /\ w' \in CallerWriters
    /\ w0' = w'
    /\ perr' = Nil
    /\ mapping' = "New"
    /\ preq' = NoRequest
    /\ built' = EmptyProblem
    /\ plog' = <<>>
    /\ UNCHANGED sent500
    /\ UNCHANGED <<chainVars, dbVars, reqVars, corsVars, errVars>>

\* the operation labels callers pass
Operations == {"get user", "create order"}

\* A faulty variant of the classifier's logging: the one Warn line of the
\* earlier revision, with "Failed to <operation>" as its message
WrapLogSingle(err, wrapped, operation, a) ==
    IF err = Nil THEN <<>>
    ELSE << [level |-> "warn", msg |-> <<"Failed to ", operation>>,
             error |-> ErrorMsg(wrapped), operation |-> operation,
             unknown |-> wrapped.typ = "InternalServerError",
             table |-> a.table, key |-> a.key, value |-> a.value] >>

\* The log lines of one classifier call: logger.Error with the driver's error
\* before the switch, logger.Warn with the classified error after it. The
\* keyed variants add table, key and value to the second line.
WrapLog(err, wrapped, operation, a) ==
    IF err = Nil THEN <<>>
    ELSE << [level |-> "error", msg |-> <<"Failed to ", operation>>,
             error |-> ErrorMsg(err), operation |-> "", unknown |-> FALSE,
             table |-> "", key |-> "", value |-> ""],
            [level |-> "warn",
             msg |-> IF a.keyed THEN <<"Wrapped database error with key value">>
                     ELSE <<"Wrapped database error">>,
             error |-> ErrorMsg(wrapped), operation |-> operation,
             unknown |-> wrapped.typ = "InternalServerError",
             table |-> a.table, key |-> a.key, value |-> a.value] >>

NoArgs == [keyed |-> FALSE, table |-> "", key |-> "", value |-> ""]

DBInit ==
    /\ dberr = Nil
    /\ dbargs = NoArgs
    /\ dbres = Nil
    /\ dbop = ""
    /\ dblog = <<>>
    /\ dbpc = "ready"

\* databaseutil.WrapDBError(err, logger, operation)
CallWrapDBError ==
    /\ dbpc = "ready"
    /\ \E e \in DBErrs, operation \in Operations :
          /\ dberr' = e
          /\ dbop' = operation
          /\ dbres' = WrapDBError(e)
          /\ dblog' = WrapLog(e, dbres', operation, NoArgs)
    /\ dbargs' = NoArgs
    /\ dbpc' = "done"
    /\ UNCHANGED <<chainVars, w, probVars, reqVars, corsVars, errVars>>

\* databaseutil.WrapDBErrorWithKeyValue(err, table, key, value, logger, operation)
CallWrapDBErrorWithKeyValue ==
    /\ dbpc = "ready"
    /\ \E e \in DBErrs, a \in DBArgs, operation \in Operations :
          /\ a.keyed
          /\ dberr' = e
          /\ dbargs' = a
          /\ dbop' = operation
          /\ dbres' = WrapDBErrorWithKeyValue(e, a.table, a.key, a.value)
          /\ dblog' = WrapLog(e, dbres', operation, a)
    /\ dbpc' = "done"
    /\ UNCHANGED <<chainVars, w, probVars, reqVars, corsVars, errVars>>

\* databaseutil.WrapMSSQLError(err, logger, operation)
CallWrapMSSQLError ==
    /\ dbpc = "ready"
    /\ \E e \in MSErrs, operation \in Operations :
          /\ dberr' = e
          /\ dbop' = operation
          /\ dbres' = WrapMSSQLError(e)
          /\ dblog' = WrapLog(e, dbres', operation, NoArgs)
    /\ dbargs' = NoArgs
    /\ dbpc' = "mssql"
    /\ UNCHANGED <<chainVars, w, probVars, reqVars, corsVars, errVars>>

\* databaseutil.WrapMSSQLErrorWithKeyValue(err, table, key, value, logger, operation)
CallWrapMSSQLErrorWithKeyValue ==
    /\ dbpc = "ready"
    /\ \E e \in MSErrs, a \in DBArgs, operation \in Operations :
          /\ a.keyed
          /\ dberr' = e
          /\ dbargs' = a
          /\ dbop' = operation
          /\ dbres' = WrapMSSQLErrorWithKeyValue(e, a.table, a.key, a.value)
          /\ dblog' = WrapLog(e, dbres', operation, a)
    /\ dbpc' = "mssql"
    /\ UNCHANGED <<chainVars, w, probVars, reqVars, corsVars, errVars>>

\* databaseutil.WrapDBErrorWithTracker(err, tracker, opDescription), the
\* tracker started for the same operation
CallWrapDBErrorWithTracker ==
    /\ dbpc = "ready"
    /\ \E e \in DBErrs, operation \in Operations :
          /\ dberr' = e
          /\ dbop' = operation
          /\ dbres' = WrapDBErrorWithTracker(e, operation)
          /\ dblog' = TrackerLog(e, operation)
    /\ dbargs' = NoArgs
    /\ dbpc' = "tracker"
    /\ UNCHANGED <<chainVars, w, probVars, reqVars, corsVars, errVars>>

\* the next call of the classifier
NextClassify ==
    /\ dbpc # "ready"
    /\ dbpc' = "ready"
    /\ dberr' = Nil
    /\ dbargs' = NoArgs
    /\ dbres' = Nil
    /\ dbop' = ""
    /\ dblog' = <<>>
    /\ UNCHANGED <<chainVars, w, probVars, reqVars, corsVars, errVars>>

----------------------------------------------------------------------------
(* Specifications: one per component; the variables of the other           *)
(* components stay as they start                                           *)

\* --- handlerutil: constructing a structured error, reading its message, ---
\* --- matching it against the sentinels, wrapping it -----------------------

\* the Message argument of the constructors: set or ""
ErrMessages == {"no such record", ""}

\* the errs argument of NewValidationErrorWithErrors: unset, one, two items
ErrLists    == {<<>>, <<"email: invalid format">>,
                <<"email: invalid format", "password: too short">>}

\* the targets of errors.Is: the sentinels of package handlerutil, and an
\* error unrelated to them
IsTargets ==
    {ErrNotFound, ErrForbidden, ErrCredentialInvalid, ErrUserAlreadyExists,
     ErrUnauthorized, ErrInternalServer, ErrInvalidUUID, ErrValidation,
     OtherErr}

IsResults(e) == [t \in IsTargets |-> ErrorsIs(e, t)]

ErrIdle ==
    /\ sbase = Nil
    /\ serr = Nil
    /\ smsg = <<>>
    /\ sis = IsResults(Nil)
    /\ spc = "ready"

\* the caller constructs e, then calls e.Error() and errors.Is(e, t)
Constructed(e) ==
    /\ spc = "ready"
    /\ sbase' = e
    /\ serr' = e
    /\ smsg' = ErrorMsg(e)
    /\ sis' = IsResults(e)
    /\ spc' = "built"
    /\ UNCHANGED <<chainVars, w, probVars, dbVars, reqVars, corsVars>>

CallNewNotFoundError ==
    \E table \in {"users", "teams", ""}, key \in {"id", ""},
       value \in {"abc", "42", ""}, message \in ErrMessages :
        Constructed(NewNotFoundError(table, key, value, message))

CallNewValidationError ==
    \E field \in {"email", "age", ""}, message \in ErrMessages :
        Constructed(NewValidationError(field, message))

CallNewValidationErrorWithErrors ==
    \E message \in ErrMessages, errs \in ErrLists :
        Constructed(NewValidationErrorWithErrors(message, errs))

CallNewInvalidUUIDError ==
    \E uuid \in {"not-a-uuid", "1234", ""}, message \in ErrMessages :
        Constructed(NewInvalidUUIDError(uuid, message))

\* a caller wraps the instance: fmt.Errorf("...: %w", e) or errors.Join(x, e)
WrapStructured ==
    /\ spc = "built"
    /\ \E how \in {"Errorf", "Join"} :
          serr' = IF how = "Errorf" THEN ErrorfW("GetByID", serr)
                  ELSE ErrorsJoin(OtherErr2, serr)
    /\ smsg' = ErrorMsg(serr')
    /\ sis' = IsResults(serr')
    /\ spc' = "wrapped"
    /\ UNCHANGED <<sbase, chainVars, w, probVars, dbVars, reqVars, corsVars>>

NextStructured ==
    /\ spc # "ready"
    /\ sbase' = Nil
    /\ serr' = Nil
    /\ smsg' = <<>>
    /\ sis' = IsResults(Nil)
    /\ spc' = "ready"
    /\ UNCHANGED <<chainVars, w, probVars, dbVars, reqVars, corsVars>>

ChainIdle ==
    /\ heap = <<>>
    /\ sets = <<>>
    /\ made = <<>>
    /\ caller = [p \in Procs |-> IdleCaller]
    /\ builtFrom = <<>>
    /\ cpc = "idle"
    /\ cdepth = 0
    /\ events = <<>>

ProbIdle ==
    /\ w0 = NewRecorder
    /\ perr = Nil
    /\ mapping = "New"
    /\ preq = NoRequest
    /\ ppc = "ready"
    /\ built = EmptyProblem
    /\ plog = <<>>
    /\ sent500 = {}

ReqIdle ==
    /\ debug = FALSE
    /\ rpc = "idle"
    /\ rdepth = 0
    /\ panicVal = NoPanic
    /\ bodyFault = "none"
    /\ spans = NoSpans
    /\ crw = NewCustomResponseWriter
    /\ hops = 0
    /\ hw = NewRecorder
    /\ reqNo = 0
    /\ panicked = <<FALSE, FALSE>>
    /\ rlog = <<>>
    /\ loggers = NoFields
    /\ reqBody = <<>>
    /\ rbody = <<>>
    /\ bodyBytes = <<>>
    /\ bodyReads = 0
    /\ handlerCalls = 0

CorsIdle ==
    /\ allowOrigin = <<>>
    /\ creq = NoCorsRequest
    /\ corsPc = "idle"
    /\ nextCalls = 0
    /\ nextReq = NoCorsRequest
    /\ corsLog = <<>>

\* Set.Append by concurrent callers, Set.HandlerFunc, and requests through it
InitChain ==
    ChainInit /\ w = NewRecorder /\ ProbIdle /\ DBInit /\ ReqIdle /\ CorsIdle /\ ErrIdle

NextChain ==
    \/ \E p \in Procs : AppendCopy(p)
    \/ \E p \in Procs : AppendReturn(p)
    \/ BuildHandler
    \/ EnterWrapper
    \/ RunHandler
    \/ LeaveWrapper
    \/ RequestServed

SpecChain ==
    InitChain /\ [][NextChain]_vars

\* requests through TraceMiddleware and RecoverMiddleware
InitRequest ==
    ReqInit /\ ChainIdle /\ w = NewRecorder /\ ProbIdle /\ DBInit /\ CorsIdle /\ ErrIdle

NextRequest ==
    \/ StartRequest
    \/ EnterTrace
    \/ EnterRecover
    \/ HandlerWriteHeader
    \/ HandlerWrite
    \/ HandlerReturn
    \/ HandlerPanic
    \/ LeaveTrace
    \/ UnwindTrace
    \/ LeaveRecover
    \/ EndRequest

SpecRequest ==
    InitRequest /\ [][NextRequest]_vars

\* calls of HttpWriter.WriteError and WriteErrorWithRequest
InitProblem ==
    ProbInit /\ ChainIdle /\ handlerFn = BaseHandler /\ DBInit /\ ReqIdle
             /\ CorsIdle /\ ErrIdle

NextProblem ==
    \/ CallWriteError
    \/ CallWriteErrorWithRequest
    \/ CallWriteErrorMarshalFails
    \/ NextCall

SpecProblem ==
    InitProblem /\ [][NextProblem]_vars

\* calls of the database classifier
InitDB ==
    DBInit /\ ChainIdle /\ handlerFn = BaseHandler /\ w = NewRecorder
           /\ ProbIdle /\ ReqIdle /\ CorsIdle /\ ErrIdle

NextDB ==
    \/ CallWrapDBError
    \/ CallWrapDBErrorWithKeyValue
    \/ CallWrapMSSQLError
    \/ CallWrapMSSQLErrorWithKeyValue
    \/ CallWrapDBErrorWithTracker
    \/ NextClassify

SpecDB ==
    InitDB /\ [][NextDB]_vars

\* structured errors constructed, read, matched and wrapped
InitErrors ==
    ErrIdle /\ ChainIdle /\ handlerFn = BaseHandler /\ w = NewRecorder
            /\ ProbIdle /\ DBInit /\ ReqIdle /\ CorsIdle

NextErrors ==
    \/ CallNewNotFoundError
    \/ CallNewValidationError
    \/ CallNewValidationErrorWithErrors
    \/ CallNewInvalidUUIDError
    \/ WrapStructured
    \/ NextStructured

SpecErrors ==
    InitErrors /\ [][NextErrors]_vars

\* requests through CORSMiddleware
InitCORS ==
    CorsInit /\ ChainIdle /\ handlerFn = BaseHandler /\ ProbIdle /\ DBInit
             /\ ReqIdle /\ ErrIdle

NextCORS ==
    \/ CORSRequest
    \/ CORSServe
    \/ CORSDownstream

SpecCORS ==
    InitCORS /\ [][NextCORS]_vars

----------------------------------------------------------------------------
(* Properties of pkg/middleware, under SpecChain                           *)

EntersOf(seq) == [i \in 1..Len(seq) |-> <<"enter", seq[i]>>]

LeavesOf(seq) == [i \in 1..Len(seq) |-> <<"leave", seq[Len(seq) + 1 - i]>>]

\* C1: a request through Set.HandlerFunc(handler) of a chain appended in the
\* order [A, B, C] enters A, B, C in that order, then the handler, then leaves
\* C, B, A: the first-appended wrapper is entered first and left last, and
\* every wrapper is entered and left exactly once.
C1_NestingOrder ==
    /\ cpc # "idle" => handlerFn = builtFrom \o BaseHandler
    /\ cpc = "done" =>
          events = EntersOf(builtFrom) \o << <<"handler", "handler">> >>
                                       \o LeavesOf(builtFrom)

\* a request has gone through a chain of two different wrappers
C1_Witness ==
    /\ cpc = "done"
    /\ Len(builtFrom) >= 2
    /\ builtFrom[1] # builtFrom[2]

\* C2: whatever Append calls have run or are running, every chain still holds
\* the wrapper sequence it was created with, and a chain returned by Append
\* holds its base's sequence followed by the one wrapper of that call.
C2_AppendNeverMutates ==
    /\ Len(sets) = Len(made)
    /\ \A i \in 1..Len(sets) :
          /\ SliceElems(heap, sets[i]) = made[i].seq
          /\ made[i].from # 0 =>
                SliceElems(heap, sets[i])
                   = SliceElems(heap, sets[made[i].from]) \o <<made[i].mw>>

\* two chains were derived from one base that has spare capacity, with
\* different wrappers
C2_Witness ==
    \E i, j \in 1..Len(sets) :
       /\ made[i].from # 0
       /\ made[i].from = made[j].from
       /\ made[i].mw # made[j].mw
       /\ sets[made[i].from].len < sets[made[i].from].cap

----------------------------------------------------------------------------
(* Properties of pkg/trace, under SpecRequest                              *)

InChain(m) == \E i \in 1..Len(handlerFn) : handlerFn[i] = m

InternalServerErrorBody ==
    << Marshal(NewInternalServerProblem(<<"Internal server error">>)) >>

\* C3: when the handler has panicked below RecoverMiddleware, the finished
\* response has status 500, content type application/problem+json and a body
\* of exactly one Problem document, whatever the handler wrote before.
C3_PanicResponseWellFormed ==
    (rpc = "done" /\ panicked[2] /\ InChain("Recover")) =>
        /\ w.status = StatusInternalServerError
        /\ w.sent["Content-Type"] = "application/problem+json"
        /\ w.body = InternalServerErrorBody

\* C4: a span is ended at most once and only after it started; when the
\* request is over every span that started has ended; a request in flight can
\* always take its next step; a panic does not leave RecoverMiddleware; and a
\* request whose handler does not panic gets the handler's response, also
\* after a request whose handler panicked.
C4_AlwaysFinalized ==
    /\ \A m \in {"Trace", "Recover"} :
          /\ spans[m].ended <= spans[m].started
          /\ spans[m].started <= 1
          /\ rpc \in {"done", "crashed"} => spans[m].ended = spans[m].started
          /\ (rpc = "done" /\ InChain(m) /\ ~(debug /\ bodyFault # "none"))
                => spans[m].started = 1
    /\ rpc \in {"call", "ret", "unwind"} => ENABLED RequestStep
    /\ InChain("Recover") =>
          /\ rpc # "crashed"
          /\ rpc = "unwind" => \E i \in 1..rdepth : handlerFn[i] = "Recover"
    /\ (rpc = "done" /\ ~panicked[2]) =>
          w = IF debug /\ bodyFault # "none" /\ InChain("Trace")
              THEN writeBodyHandlingError(NewRecorder) ELSE hw

\* behind both wrappers, a request whose handler wrote a body is over, and
\* the request before it panicked
C4_Witness ==
    /\ rpc = "done"
    /\ InChain("Recover") /\ InChain("Trace")
    /\ panicked[1] /\ ~panicked[2]
    /\ spans["Recover"].ended = 1 /\ spans["Trace"].ended = 1
    /\ hw.body # <<>>

----------------------------------------------------------------------------
(* Properties of the problem writer, under SpecProblem                     *)

Triple(problem) == <<problem.Title, problem.Status, problem.Type>>

\* the errors of the model that are of one kind: the leaves, and the leaves
\* with context added by a caller
OfOneKind(err) ==
    \/ err \in ProblemLeaves
    \/ \E e \in ProblemLeaves : err = ErrorfW("GetUser", e)

\* the triple documented for the kind of an error of one kind
DocumentedTriple(err) ==
    IF ErrorsIs(err, ErrNotFound)
        THEN Triple(NewNotFoundProblem(<<>>))
    ELSE IF \/ ErrorsIs(err, ErrValidation)
            \/ ErrorsAs(err, "ValidationErrors") # Nil
            \/ ErrorsIs(err, ErrUserAlreadyExists)
            \/ ErrorsIs(err, ErrInvalidUUID)
            \/ ErrorsIs(err, ErrInvalidPageOrSize)
            \/ ErrorsIs(err, ErrInvalidSortingField)
        THEN Triple(NewValidateProblem(<<>>))
    ELSE IF ErrorsIs(err, ErrForbidden)
        THEN Triple(NewForbiddenProblem(<<>>))
    ELSE IF ErrorsIs(err, ErrUnauthorized) \/ ErrorsIs(err, ErrCredentialInvalid)
        THEN Triple(NewUnauthorizedProblem(<<>>))
    ELSE Triple(NewInternalServerProblem(<<>>))

\* C5: after WriteError or WriteErrorWithRequest with a nil error the
\* ResponseWriter is as the caller left it (headers, status, body), and
\* nothing is logged, for every request and every mapping.
C5_NilErrorUntouched ==
    (ppc # "ready" /\ perr = Nil) => (w = w0 /\ plog = <<>>)

\* WriteError returned from a nil error, on a writer with a custom mapping and
\* a response the caller had begun
C5_Witness ==
    /\ ppc = "WriteError"
    /\ perr = Nil
    /\ mapping = "teapot"
    /\ w0.wroteHeader
    /\ w0.body # <<>>

\* C6: with no custom mapping, or one that returns Problem{}, the problem
\* built for an error of one kind has the title, status and type documented
\* for that kind.
C6_DocumentedTriples ==
    (/\ ppc # "ready"
     /\ perr # Nil
     /\ OfOneKind(perr)
     /\ ProblemMapping(mapping, perr) = EmptyProblem)
        => Triple(built) = DocumentedTriple(perr)

\* the kinds of the precedence chain, in the documented order
KindOrder ==
    <<"structured NotFound", "structured Validation", "UserAlreadyExists",
      "CredentialInvalid", "Forbidden", "Unauthorized", "InvalidUUID",
      "generic NotFound", "Internal marker", "pagination">>

OfKind(err, kind) ==
    CASE kind = "structured NotFound"   -> ErrorsAs(err, "NotFoundError") # Nil
      [] kind = "structured Validation" -> \/ ErrorsAs(err, "ValidationErrors") # Nil
                                           \/ ErrorsAs(err, "ValidationError") # Nil
      [] kind = "UserAlreadyExists"     -> ErrorsIs(err, ErrUserAlreadyExists)
      [] kind = "CredentialInvalid"     -> ErrorsIs(err, ErrCredentialInvalid)
      [] kind = "Forbidden"             -> ErrorsIs(err, ErrForbidden)
      [] kind = "Unauthorized"          -> ErrorsIs(err, ErrUnauthorized)
      [] kind = "InvalidUUID"           -> ErrorsIs(err, ErrInvalidUUID)
      [] kind = "generic NotFound"      -> ErrorsIs(err, ErrNotFound)
      [] kind = "Internal marker"       -> ErrorsAs(err, "InternalServerError") # Nil
      [] kind = "pagination"            -> \/ ErrorsIs(err, ErrInvalidPageOrSize)
                                           \/ ErrorsIs(err, ErrInvalidSortingField)

\* the title and status of each kind of the precedence chain
KindTitleStatus(kind) ==
    IF kind \in {"structured NotFound", "generic NotFound"}
        THEN <<"Not Found", StatusNotFound>>
    ELSE IF kind \in {"structured Validation", "UserAlreadyExists", "InvalidUUID",
                      "pagination"}
        THEN <<"Validation Problem", StatusBadRequest>>
    ELSE IF kind \in {"CredentialInvalid", "Unauthorized"}
        THEN <<"Unauthorized", StatusUnauthorized>>
    ELSE IF kind = "Forbidden"
        THEN <<"Forbidden", StatusForbidden>>
    ELSE <<"Internal Server Error", StatusInternalServerError>>

\* the detail of the kinds whose detail is a fixed phrase
KindDetail(kind) ==
    CASE kind = "UserAlreadyExists" -> <<"User already exists">>
      [] kind = "CredentialInvalid" -> <<"Invalid username or password">>
      [] kind = "Forbidden"         -> <<"Make sure you have the right permissions">>
      [] kind = "Unauthorized"      -> <<"You must be logged in to access this resource">>
      [] kind = "InvalidUUID"       -> <<"Invalid UUID format">>
      [] kind = "generic NotFound"  -> <<"Resource not found">>
      [] kind = "Internal marker"   -> <<"Internal server error">>
      [] OTHER                      -> <<>>

\* the first kind of KindOrder the error is of, 0 when it is of none
FirstKind(err) ==
    IF \E i \in 1..Len(KindOrder) : OfKind(err, KindOrder[i])
    THEN CHOOSE i \in 1..Len(KindOrder) :
            /\ OfKind(err, KindOrder[i])
            /\ \A j \in 1..(i - 1) : ~OfKind(err, KindOrder[j])
    ELSE 0

\* C7: for an error that is of several kinds, the built problem is the one of
\* the kind that comes first in the documented order.
C7_FirstKindWins ==
    (/\ ppc # "ready"
     /\ perr # Nil
     /\ ProblemMapping(mapping, perr) = EmptyProblem
     /\ FirstKind(perr) # 0)
        => LET kind == KindOrder[FirstKind(perr)]
           IN /\ <<built.Title, built.Status>> = KindTitleStatus(kind)
              /\ KindDetail(kind) # <<>> => built.Detail = KindDetail(kind)

\* C8: when the custom mapping returns a non-empty Problem for the error, that
\* Problem is built and written, field for field, also for an error of a kind
\* of the taxonomy; when it returns Problem{}, what is built is what New()
\* builds.
C8_CustomMappingWins ==
    (ppc \in {"WriteError", "WriteErrorWithRequest"} /\ perr # Nil) =>
        IF mapping = "teapot" \/ (mapping = "domain" /\ ErrorsIs(perr, ErrForbidden))
        THEN /\ built = CustomProblem
             /\ w0 = NewRecorder =>
                   /\ w.status = StatusTeapot
                   /\ SubSeq(w.body[1], 1, 4) = Marshal(CustomProblem)
        ELSE built = buildProblem("New", perr)

\* a custom problem was written for an error that is also NotFound
C8_Witness ==
    /\ ppc = "WriteError"
    /\ mapping = "teapot"
    /\ ErrorsIs(perr, ErrNotFound)
    /\ w0 = NewRecorder
    /\ w.status = StatusTeapot

\* the texts in the body the client received
BodyTokens(rw) ==
    UNION { UNION { Tokens(rw.body[i][j].s) : j \in 1..Len(rw.body[i]) }
            : i \in 1..Len(rw.body) }

\* C9: WriteError on a fresh ResponseWriter, for an error of no kind of the
\* taxonomy or a database-internal error: the response is status 500 with the
\* one fixed Problem document, the same for all such errors; no text of the
\* error's message is in it; the message is in the log record.
C9_NoLeakOnUnmatched ==
    /\ Cardinality(sent500) <= 1
    /\ (/\ ppc = "WriteError"
        /\ OfNoKind(perr)
        /\ mapping \in {"New", "empty"}
        /\ w0 = NewRecorder)
          => /\ Wire(w) = [status  |-> StatusInternalServerError,
                           headers |-> [NoHeaders EXCEPT !["Content-Type"] =
                                           "application/problem+json"],
                           body    |-> InternalServerErrorBody]
             /\ sent500 = {Wire(w)}
             /\ Tokens(ErrorMsg(perr)) \cap BodyTokens(w) = {}
             /\ Len(plog) = 1
             /\ plog[1].error = ErrorMsg(perr)

\* a database-internal error that holds a driver error was answered
C9_Witness ==
    /\ ppc = "WriteError"
    /\ mapping = "New"
    /\ w0 = NewRecorder
    /\ perr = InternalServerError(PgError("42P01"))
    /\ w.status = StatusInternalServerError

----------------------------------------------------------------------------
(* Properties of the database classifier, under SpecDB                     *)

\* the canonical kinds an error is of
KindsOf(err) ==
    {t \in {ErrNotFound, ErrQueryTimeout, ErrUniqueViolation,
            ErrForeignKeyViolation, ErrDeadlockDetected} : ErrorsIs(err, t)}
    \cup (IF ErrorsAs(err, "InternalServerError") # Nil
          THEN {InternalServerError(Nil)} ELSE {})

\* the driver code of an error, "" when it holds no *pgconn.PgError
CodeOf(err) ==
    IF ErrorsAs(err, "PgError") = Nil THEN "" ELSE ErrorsAs(err, "PgError").id

NotFoundTemplate(a) ==
    Str(<<"unable to find ", a.table, " with ", a.key, " '", a.value, "'">>)

\* The classification of C10, with the message of the keyed NotFound given
Classified(message) ==
    dbpc = "done" =>
        IF dberr = Nil THEN dbres = Nil
        ELSE /\ Cardinality(KindsOf(dbres)) = 1
             /\ IF ErrorsIs(dberr, ErrNoRows)
                    THEN /\ KindsOf(dbres) = {ErrNotFound}
                         /\ dbargs.keyed =>
                               /\ dbres.typ = "NotFoundError"
                               /\ ErrorMsg(dbres) = message
                ELSE IF ErrorsIs(dberr, DeadlineExceeded)
                    THEN KindsOf(dbres) = {ErrQueryTimeout}
                ELSE IF CodeOf(dberr) = "23505"
                    THEN KindsOf(dbres) = {ErrUniqueViolation}
                ELSE IF CodeOf(dberr) = "23503"
                    THEN KindsOf(dbres) = {ErrForeignKeyViolation}
                ELSE IF CodeOf(dberr) = "40P01"
                    THEN KindsOf(dbres) = {ErrDeadlockDetected}
                ELSE dbres = InternalServerError(dberr)

\* C10: the classifier returns nil for nil and otherwise one canonical kind,
\* in the order no-rows, deadline, driver code, internal; the keyed NotFound
\* has the message "unable to find <table> with <key> '<value>'".
C10_TemplateAlways == Classified(NotFoundTemplate(dbargs))

\* C10, amended: as above, and the message of the keyed NotFound is the
\* template when key and value are both non-empty and "record not found"
\* otherwise.
C10_Classification ==
    Classified(IF dbargs.key # "" /\ dbargs.value # ""
               THEN NotFoundTemplate(dbargs) ELSE ErrorMsg(ErrNotFound))

\* the keyed classifier was given an error that is both no-rows and
\* deadline-exceeded, with an empty key
C10_Witness ==
    /\ dbpc = "done"
    /\ dbargs.keyed
    /\ dbargs.key = "" /\ dbargs.value # ""
    /\ ErrorsIs(dberr, ErrNoRows)
    /\ ErrorsIs(dberr, DeadlineExceeded)
    /\ dbres.typ = "NotFoundError"

RECURSIVE SameClassPG(_)
\* the PostgreSQL error of the same class of input as a SQL Server error
SameClassPG(e) ==
    IF e = SqlErrNoRows THEN ErrNoRows
    ELSE IF e.typ = "mssql.Error"
         THEN IF e.id \in {"2627", "2601"} THEN PgError("23505")
              ELSE IF e.id = "547" THEN PgError("23503")
              ELSE IF e.id = "1205" THEN PgError("40P01")
              ELSE PgError("42P01")
    ELSE IF e.typ = "wrapError" THEN ErrorfW(e.ctx[1], SameClassPG(e.kids[1]))
    ELSE IF e.typ = "joinError"
         THEN ErrorsJoin(SameClassPG(e.kids[1]), SameClassPG(e.kids[2]))
    ELSE e

\* what the PostgreSQL classifier returns for the same class of input and the
\* same table, key and value
SameCallPG ==
    IF dbargs.keyed
    THEN WrapDBErrorWithKeyValue(SameClassPG(dberr), dbargs.table, dbargs.key,
                                 dbargs.value)
    ELSE WrapDBError(SameClassPG(dberr))

\* C11: for every input the SQL Server classifier returns an error of the
\* kind the PostgreSQL classifier returns for the same class of input, plain
\* and keyed (nil for nil, the same structured NotFound for no-rows); numbers
\* 2627 and 2601 give UniqueViolation, 547 ForeignKeyViolation and 1205
\* DeadlockDetected.
C11_OneOutputContract ==
    dbpc = "mssql" =>
        /\ dberr = Nil <=> dbres = Nil
        /\ KindsOf(dbres) = KindsOf(SameCallPG)
        /\ dbres.typ = "NotFoundError" => dbres = SameCallPG
        /\ dbres.typ = "InternalServerError" => dbres = InternalServerError(dberr)
        /\ (dberr \in {MssqlError("2627"), MssqlError("2601")})
              => KindsOf(dbres) = {ErrUniqueViolation}
        /\ dberr = MssqlError("547") => KindsOf(dbres) = {ErrForeignKeyViolation}
        /\ dberr = MssqlError("1205") => KindsOf(dbres) = {ErrDeadlockDetected}

\* the keyed SQL Server classifier was given a wrapped duplicate-key error of
\* a unique index
C11_Witness ==
    /\ dbpc = "mssql"
    /\ dbargs.keyed
    /\ dberr = ErrorfW("query", MssqlError("2601"))
    /\ KindsOf(dbres) = {ErrUniqueViolation}

----------------------------------------------------------------------------
(* Properties of pkg/cors, under SpecCORS                                  *)

\* the wrapper has run for the request
CorsServed == corsPc \in {"next", "done"}

OriginAllowed == Contains(allowOrigin, "*") \/ Contains(allowOrigin, creq.origin)

\* the headers the client gets: those sent with the status line, or those set
\* so far when no status line is written yet
EffectiveHeaders(rw) == IF rw.wroteHeader THEN rw.sent ELSE rw.hdr

\* C12: a request whose Origin is non-empty and not in the allow-list, with
\* no wildcard in the list, is answered 403 and the downstream handler is not
\* invoked, whatever the method.
C12_DisallowedOrigin403 ==
    (CorsServed /\ creq.origin # "" /\ ~OriginAllowed) =>
        /\ corsPc = "done"
        /\ w.status = StatusForbidden
        /\ nextCalls = 0
        /\ Len(corsLog) = 1

\* an OPTIONS request of a disallowed origin was turned away by a wrapper
\* with a non-empty allow-list
C12_Witness ==
    /\ corsPc = "done"
    /\ creq = [origin |-> "http://evil.example", method |-> "OPTIONS"]
    /\ allowOrigin = <<"http://good.example">>
    /\ w.status = StatusForbidden

\* C13: an OPTIONS request of an allowed origin is answered 200 with the CORS
\* headers set, and the downstream handler is not invoked.
C13_PreflightShortCircuit ==
    (CorsServed /\ creq.origin # "" /\ OriginAllowed /\ creq.method = "OPTIONS") =>
        /\ corsPc = "done"
        /\ nextCalls = 0
        /\ w.status = StatusOK
        /\ w.body = <<>>
        /\ w.sent["Access-Control-Allow-Origin"] = creq.origin
        /\ w.sent["Access-Control-Allow-Credentials"] = "true"
        /\ w.sent["Access-Control-Allow-Methods"] = "GET, POST, PUT, DELETE, OPTIONS"
        /\ w.sent["Access-Control-Allow-Headers"] = "Content-Type, Authorization"

\* an OPTIONS request was answered under a wildcard allow-list
C13_Witness ==
    /\ corsPc = "done"
    /\ creq = [origin |-> "http://evil.example", method |-> "OPTIONS"]
    /\ allowOrigin = <<"*">>
    /\ w.status = StatusOK

\* C14: for a request without Origin the wrapper sets no header and writes no
\* status; the downstream handler is invoked once, with the same request, and
\* the response is the downstream handler's alone.
C14_NoOriginPassThrough ==
    (CorsServed /\ creq.origin = "") =>
        /\ corsLog = <<>>
        /\ corsPc = "next" => (w = NewRecorder /\ nextCalls = 0)
        /\ corsPc = "done" =>
              /\ nextCalls = 1
              /\ nextReq = creq
              /\ \E code \in DownstreamCodes : w = Downstream(NewRecorder, code)

\* an OPTIONS request without Origin went through a wrapper whose allow-list
\* has no wildcard
C14_Witness ==
    /\ corsPc = "done"
    /\ creq = [origin |-> "", method |-> "OPTIONS"]
    /\ allowOrigin = <<"http://good.example">>
    /\ nextCalls = 1

FixedHeadersSet(rw) ==
    /\ EffectiveHeaders(rw)["Access-Control-Allow-Methods"]
          = "GET, POST, PUT, DELETE, OPTIONS"
    /\ EffectiveHeaders(rw)["Access-Control-Allow-Headers"]
          = "Content-Type, Authorization"

\* C15: every response to a request that carries an Origin header has
\* Access-Control-Allow-Methods and Access-Control-Allow-Headers set to the
\* fixed values, in every branch.
C15_FixedHeadersAlways ==
    (CorsServed /\ creq.origin # "") => FixedHeadersSet(w)

\* C15, amended: the two headers are set to the fixed values when the origin
\* is allowed (OPTIONS short-circuit and downstream invoked alike); the 403
\* of a disallowed origin carries neither.
C15_FixedHeadersWhenAllowed ==
    (CorsServed /\ creq.origin # "") =>
        IF OriginAllowed
        THEN FixedHeadersSet(w)
        ELSE /\ w.status = StatusForbidden
             /\ EffectiveHeaders(w)["Access-Control-Allow-Methods"] = ""
             /\ EffectiveHeaders(w)["Access-Control-Allow-Headers"] = ""

\* the downstream handler has answered a request of an allowed origin
C15_Witness ==
    /\ corsPc = "done"
    /\ creq.origin = "http://good.example"
    /\ OriginAllowed
    /\ nextCalls = 1
    /\ w.sent["Access-Control-Allow-Headers"] = "Content-Type, Authorization"

----------------------------------------------------------------------------
(* Properties of the loggers of pkg/trace, under SpecRequest               *)

\* C16: the logger a wrapper uses while it serves a request carries the trace
\* and span identifiers of that request only, whatever requests were served
\* before: nothing written for one request is read for another.
C16_PerRequestLogger ==
    \A m \in {"Trace", "Recover"} :
       (rpc \in {"call", "ret", "unwind"} /\ spans[m].started = 1) =>
           /\ Len(loggers[m]) = 2
           /\ \A i \in 1..Len(loggers[m]) : loggers[m][i].req = reqNo

----------------------------------------------------------------------------
(* C17: the message of a structured error                                  *)

\* The message the fallback gives: Message when set, else the template when
\* the context it needs is there, else the text of the kind's sentinel.
FallbackMessage(message, hasContext, template, generic) ==
    IF message # "" THEN <<message>>
    ELSE IF hasContext THEN template
    ELSE generic

\* C17: the message of a freshly constructed structured error is its Message,
\* verbatim, whenever Message is non-empty, whatever the other fields hold;
\* with an empty Message it is the template over the context ("unable to find
\* T with K 'V'" when key and value are set, "validation failed for field 'F'"
\* when the field is set, "failed to parse UUID 'U'" when the UUID is set);
\* with neither, it is the generic message of the kind.
C17_MessageFallback ==
    spc = "built" =>
        LET c == sbase.ctx IN
        CASE sbase.typ = "NotFoundError" ->
                smsg = FallbackMessage(c[4], c[2] # "" /\ c[3] # "",
                           Str(<<"unable to find ", c[1], " with ", c[2],
                                 " '", c[3], "'">>),
                           <<"record not found">>)
          [] sbase.typ = "ValidationError" ->
                smsg = FallbackMessage(c[2], c[1] # "",
                           Str(<<"validation failed for field '", c[1], "'">>),
                           <<"validation error">>)
          [] sbase.typ = "InvalidUUIDError" ->
                smsg = FallbackMessage(c[2], c[1] # "",
                           Str(<<"failed to parse UUID '", c[1], "'">>),
                           <<"failed to parse UUID">>)

\* The example of the specification: table users, key id, value abc and no
\* Message.
C17_Witness ==
    /\ spc = "built"
    /\ sbase = NewNotFoundError("users", "id", "abc", "")
    /\ smsg = <<"unable to find ", "users", " with ", "id", " '", "abc", "'">>

----------------------------------------------------------------------------
(* C18: a structured error matches the sentinel of its kind and no other   *)

\* the sentinel of a structured kind
OwnSentinel(e) ==
    CASE e.typ = "NotFoundError"    -> ErrNotFound
      [] e.typ = "ValidationError"  -> ErrValidation
      [] e.typ = "InvalidUUIDError" -> ErrInvalidUUID

\* C18: for every structured NotFound, Validation and InvalidUUID instance,
\* whatever its context fields hold, bare or wrapped by fmt.Errorf or
\* errors.Join, errors.Is against the sentinel of its own kind is true, and
\* errors.Is against every other handlerutil sentinel and against an unrelated
\* error is false.
C18_MatchesOwnKindOnly ==
    spc \in {"built", "wrapped"} =>
        \A t \in IsTargets :
            sis[t] = (t = OwnSentinel(sbase))

\* A wrapped ValidationError carrying an errors list and no field.
C18_Witness ==
    /\ spc = "wrapped"
    /\ sbase.typ = "ValidationError"
    /\ ErrorsOf(sbase) # <<>>
    /\ serr.typ = "wrapError"
    /\ sis[ErrValidation]
    /\ ~sis[ErrNotFound]
    /\ ~sis[OtherErr]

----------------------------------------------------------------------------
(* C19: the errors field of the Problem                                    *)

\* the values of the members named k of a JSON document
JsonField(doc, k) ==
    LET hits == SelectSeq(doc, LAMBDA entry : entry.k = k)
    IN [i \in 1..Len(hits) |-> hits[i].s]

\* C19: with no custom mapping in the way, the Problem document written for a
\* structured Validation error has the member "errors" equal to the error's
\* Errors list, same elements in the same order, when that list is non-empty,
\* and no such member when the list is empty or unset, and its detail is the
\* error's message; the document of every other kind has no "errors" member.
C19_ValidationErrorsField ==
    (/\ ppc = "WriteError"
     /\ perr # Nil
     /\ OfOneKind(perr)
     /\ ProblemMapping(mapping, perr) = EmptyProblem
     /\ w0 = NewRecorder)
        => LET doc == w.body[1]
               ve  == ErrorsAs(perr, "ValidationError")
           IN IF ve # Nil
              THEN /\ JsonField(doc, "errors") =
                          IF ErrorsOf(ve) = <<>> THEN <<>> ELSE <<ErrorsOf(ve)>>
                   /\ JsonField(doc, "detail") = <<ErrorMsg(ve)>>
              ELSE JsonField(doc, "errors") = <<>>

----------------------------------------------------------------------------
(* C20: the instance member written by WriteErrorWithRequest               *)

\* the members title, status and type of a JSON document
TitleStatusType(doc) ==
    SelectSeq(doc, LAMBDA entry : entry.k \in {"title", "status", "type"})

\* C20: WriteErrorWithRequest with a non-nil error, on a fresh ResponseWriter,
\* writes a document whose instance is the request target up to its query
\* string, for every error; with a nil request the document has no instance;
\* its title, status and type, and the status code sent, are the ones
\* WriteError gives for the same error and mapping.
C20_InstanceIsPath ==
    (/\ ppc = "WriteErrorWithRequest"
     /\ perr # Nil
     /\ w0 = NewRecorder)
        => LET doc == w.body[1]
               ref == WriteError(mapping, w0, perr)
           IN /\ JsonField(doc, "instance") =
                     IF preq = NoRequest THEN <<>> ELSE << <<preq.uri[1]>> >>
              /\ TitleStatusType(doc) = TitleStatusType(ref.body[1])
              /\ w.status = ref.status

\* The request "/api/v1/search?q=test&limit=10" with a validation error.
C20_Witness ==
    /\ ppc = "WriteErrorWithRequest"
    /\ perr = ErrValidation
    /\ w0 = NewRecorder
    /\ preq.uri = <<"/api/v1/search", "?", "q=test&limit=10">>
    /\ JsonField(w.body[1], "instance") = << <<"/api/v1/search">> >>

----------------------------------------------------------------------------
(* C21: the Problem on the wire and the response that carries it           *)

\* the type URI the constructors of the package fix for each status
FixedTypes ==
    [c \in {StatusBadRequest, StatusUnauthorized, StatusForbidden,
            StatusNotFound, StatusInternalServerError} |->
        CASE c = StatusBadRequest
                -> "https://developer.mozilla.org/en-US/docs/Web/HTTP/Status/400"
          [] c = StatusUnauthorized
                -> "https://developer.mozilla.org/en-US/docs/Web/HTTP/Status/401"
          [] c = StatusForbidden
                -> "https://developer.mozilla.org/en-US/docs/Web/HTTP/Status/403"
          [] c = StatusNotFound
                -> "https://developer.mozilla.org/en-US/docs/Web/HTTP/Status/404"
          [] c = StatusInternalServerError
                -> "https://developer.mozilla.org/en-US/docs/Web/HTTP/Status/500"]

\* the Problem document of the response: the last chunk written
WireDoc(rw) == rw.body[Len(rw.body)]

\* the status member of a JSON document
DocStatus(doc) == (CHOOSE i \in {j \in 1..Len(doc) : doc[j].k = "status"} : TRUE)

----------------------------------------------------------------------------
(* C22: the log lines of a classifier call                                 *)

\* the classifier gave the error a kind of the taxonomy
ClassifiedResult == dbres # Nil /\ dbres.typ # "InternalServerError"

\* The statement as claimed. C22: a call of WrapDBError, WrapMSSQLError or
\* their keyed variants with a non-nil error emits
\* exactly one log line, at Warn when the error was classified and at a more
\* severe level when it was not, carrying the operation label and, in the
\* keyed variant, key and value; a call with a nil error emits none.
C22_OneLogLine ==
    dbpc \in {"done", "mssql"} =>
        IF dberr = Nil THEN dblog = <<>>
        ELSE /\ Len(dblog) = 1
             /\ dblog[1].level = IF ClassifiedResult THEN "warn" ELSE "error"
             /\ dblog[1].operation = dbop
             /\ dbargs.keyed =>
                   dblog[1].key = dbargs.key /\ dblog[1].value = dbargs.value

\* C22 (amended): a call of WrapDBError, WrapMSSQLError or their keyed
\* variants with a non-nil error emits exactly two
\* log lines: first one at Error, "Failed to <operation>", with the driver's
\* error; then one at Warn with the classified error, the operation label,
\* the flag unknown_error (true exactly when the error was not classified)
\* and, in the keyed variant, table, key and value. A call with a nil error
\* emits none.
C22_TwoLogLines ==
    dbpc \in {"done", "mssql"} =>
        IF dberr = Nil THEN dblog = <<>>
        ELSE /\ Len(dblog) = 2
             /\ dblog[1].level = "error"
             /\ dblog[1].msg = <<"Failed to ", dbop>>
             /\ dblog[1].error = ErrorMsg(dberr)
             /\ dblog[2].level = "warn"
             /\ dblog[2].error = ErrorMsg(dbres)
             /\ dblog[2].operation = dbop
             /\ dblog[2].unknown = ~ClassifiedResult
             /\ dbargs.keyed =>
                   /\ dblog[2].table = dbargs.table
                   /\ dblog[2].key = dbargs.key
                   /\ dblog[2].value = dbargs.value

\* An unclassified driver error through the keyed variant: still a Warn line,
\* flagged unknown.
C22_Witness ==
    /\ dbpc = "done"
    /\ dbargs.keyed /\ dbargs.key = "id" /\ dbargs.value = "abc"
    /\ dbres = InternalServerError(dberr)
    /\ Len(dblog) = 2
    /\ dblog[2].level = "warn"
    /\ dblog[2].unknown

----------------------------------------------------------------------------
(* C26: the error WrapDBErrorWithTracker returns                           *)

\* C26: the error WrapDBErrorWithTracker returns is of the kind WrapDBError
\* returns for the same input: nil for nil; for a no-rows input it matches
\* ErrNotFound and the builder gives it status 404; for an unrecognised driver
\* error it holds the InternalServerError marker.
C26_TrackerKeepsKind ==
    dbpc = "tracker" =>
        /\ dberr = Nil <=> dbres = Nil
        /\ KindsOf(dbres) = KindsOf(WrapDBError(dberr))
        /\ ErrorsIs(dberr, ErrNoRows) =>
              /\ ErrorsIs(dbres, ErrNotFound)
              /\ StandardProblem(dbres).Status = StatusNotFound

----------------------------------------------------------------------------
(* C23: the completion log of TraceMiddleware                              *)

\* the status the client receives: the one written, 200 when none was
ClientStatus(rw) == IF rw.wroteHeader THEN rw.status ELSE StatusOK

\* the log lines TraceMiddleware emitted for this request
TraceLines == SelectSeq(rlog, LAMBDA line : line.by = "Trace")

\* the handler returned, without a panic, into TraceMiddleware, and the
\* request is over
HandlerCompletedUnderTrace ==
    /\ rpc = "done"
    /\ InChain("Trace")
    /\ ~panicked[2]
    /\ ~(debug /\ bodyFault # "none")

\* C23: for a request the handler completes under TraceMiddleware exactly one
\* completion line is logged, at Debug when the status the client receives is
\* below 400 (200 when the handler set none) and at Error when it is 400 or
\* above.
C23_CompletionLogLevel ==
    HandlerCompletedUnderTrace =>
        /\ Len(TraceLines) = 1
        /\ TraceLines[1].level =
              IF ClientStatus(w) < StatusBadRequest THEN "debug" ELSE "error"

----------------------------------------------------------------------------
(* C24: the bodies in the completion log with debug                        *)

\* the request is over and TraceMiddleware logged its completion
TraceLogged ==
    /\ rpc = "done"
    /\ InChain("Trace")
    /\ \E i \in 1..Len(rlog) : rlog[i].by = "Trace" /\ rlog[i].level # "warn"

\* the completion line of TraceMiddleware
CompletionLine ==
    rlog[CHOOSE i \in 1..Len(rlog) :
            rlog[i].by = "Trace" /\ rlog[i].level # "warn"]

\* C24: with debug, when the status of the response is 400 or above, the
\* completion line carries the request body as the client sent it and the
\* response body as it was written through TraceMiddleware; without debug no
\* body is buffered and none is in the line.
C24_DebugBodiesLogged ==
    TraceLogged =>
        IF debug
        THEN ClientStatus(w) >= StatusBadRequest =>
                /\ CompletionLine.detail
                /\ CompletionLine.request_body = reqBody
                /\ ~CompletionLine.response_body.isNil
                /\ CompletionLine.response_body.chunks = w.body
        ELSE /\ ~CompletionLine.detail
             /\ bodyBytes = <<>>
             /\ crw.Body = NilBuffer

----------------------------------------------------------------------------
(* C29: the request body under TraceMiddleware                             *)

\* C29: whenever the handler runs it can read from r.Body exactly the bytes
\* the client sent, with debug (TraceMiddleware has read them all, once, and
\* put a fresh body in place) and without (TraceMiddleware has not read);
\* when reading or closing the body fails with debug, the response is the 500
\* InternalServerError problem, nothing downstream of TraceMiddleware is
\* invoked, and its span is ended.
C29_BodyRestored ==
    /\ (rpc = "call" /\ Callee = "handler") =>
          /\ handlerCalls = 1
          /\ rbody = reqBody
          /\ (debug /\ InChain("Trace")) =>
                bodyReads = 1 /\ bodyBytes = reqBody
    /\ ~debug => (bodyReads = 0 /\ bodyBytes = <<>>)
    /\ (rpc = "done" /\ InChain("Trace") /\ debug /\ bodyFault # "none") =>
          /\ handlerCalls = 0
          /\ hops = 0
          /\ handlerFn[1] = "Trace" => spans["Recover"].started = 0
          /\ Wire(w) = Wire(writeBodyHandlingError(NewRecorder))
          /\ w.status = StatusInternalServerError
          /\ spans["Trace"].started = 1 /\ spans["Trace"].ended = 1

\* With debug, the handler is running behind TraceMiddleware and the two-part
\* body the client sent is there for it to read.
C29_Witness ==
    /\ rpc = "call" /\ Callee = "handler"
    /\ debug /\ InChain("Trace")
    /\ Len(reqBody) = 2
    /\ bodyReads = 1
    /\ rbody = reqBody

----------------------------------------------------------------------------
(* C28: a panic under both orders of TraceMiddleware and RecoverMiddleware *)

\* the positions in the log of the lines of one emitter at one level
LinesOf(by, level) ==
    {i \in 1..Len(rlog) : rlog[i].by = by /\ rlog[i].level = level}

\* the request is over; its handler panicked before it wrote anything
PanickedBeforeWriting == rpc = "done" /\ panicked[2] /\ hw = NewRecorder

\* C28: when the handler panics before writing, with TraceMiddleware outside
\* RecoverMiddleware the 500 problem goes through the CustomResponseWriter, so
\* TraceMiddleware sees status 500 and logs one completion line at Error,
\* after the panic line of RecoverMiddleware, and the span of
\* RecoverMiddleware is ended before that of TraceMiddleware; with
\* RecoverMiddleware outside, TraceMiddleware logs no completion line, both
\* spans are ended all the same, and the 500 problem is written.
C28_OrderDecides ==
    PanickedBeforeWriting =>
        /\ handlerFn = <<"Trace", "Recover", "handler">> =>
              /\ crw.StatusCode = StatusInternalServerError
              /\ Cardinality(LinesOf("Trace", "error")) = 1
              /\ LinesOf("Trace", "debug") = {}
              /\ \A i \in LinesOf("Trace", "error") :
                    /\ rlog[i].status = StatusInternalServerError
                    /\ \E j \in LinesOf("Recover", "error") : j < i
              /\ spans["Recover"].ended = 1 /\ spans["Trace"].ended = 1
              /\ spans["Recover"].endSeq < spans["Trace"].endSeq
              /\ Wire(w) = Wire(WriteError("New", NewRecorder, ErrInternalServer))
        /\ handlerFn = <<"Recover", "Trace", "handler">> =>
              /\ TraceLines = <<>>
              /\ spans["Recover"].ended = 1 /\ spans["Trace"].ended = 1
              /\ spans["Trace"].endSeq < spans["Recover"].endSeq
              /\ Wire(w) = Wire(WriteError("New", NewRecorder, ErrInternalServer))
              /\ w.status = StatusInternalServerError

\* TraceMiddleware outside RecoverMiddleware, the handler panicked at once:
\* the panic line, then the completion line at Error with status 500.
C28_Witness ==
    /\ PanickedBeforeWriting
    /\ handlerFn = <<"Trace", "Recover", "handler">>
    /\ Len(rlog) = 3
    /\ rlog[1].by = "Recover" /\ rlog[1].level = "error"
    /\ rlog[3].by = "Trace" /\ rlog[3].level = "error"
    /\ w.status = StatusInternalServerError

----------------------------------------------------------------------------
(* C25: WriteError when the Problem cannot be serialized                   *)

\* C25: when json.Marshal fails in WriteError, on a ResponseWriter the caller
\* has not touched, the client receives status 500 with a plain-text content
\* type, and no Problem document is in the body.
C25_PlainText500 ==
    (/\ ppc = "WriteErrorMarshalFails"
     /\ perr # Nil
     /\ w0 = NewRecorder)
        => /\ w.status = StatusInternalServerError
           /\ w.sent["Content-Type"] = "text/plain; charset=utf-8"
           /\ w.body = <<RawChunk("json: marshal failed")>>

----------------------------------------------------------------------------
(* C27: the database kinds the builder has no case for                     *)

\* the database kind of a classified error
DBKindOf(err) ==
    CHOOSE t \in {ErrQueryTimeout, ErrUniqueViolation, ErrForeignKeyViolation,
                  ErrDeadlockDetected} : ErrorsIs(err, t)

\* C27: an error the classifier returned with kind QueryTimeout,
\* UniqueViolation, ForeignKeyViolation or DeadlockDetected, bare or with
\* context added by a caller, and no custom mapping for it: the response on a
\* fresh ResponseWriter is the one fixed 500 InternalServerError document, and
\* no text of the error, the driver's message included, is in it.
C27_DBKindsGive500 ==
    (/\ ppc = "WriteError"
     /\ \E e \in ClassifiedDBErrs : perr \in {e, ErrorfW("GetUser", e)}
     /\ ProblemMapping(mapping, perr) = EmptyProblem
     /\ w0 = NewRecorder)
        => /\ KindsOf(perr) = {DBKindOf(perr)}
           /\ Triple(built) = Triple(NewInternalServerProblem(<<>>))
           /\ w.status = StatusInternalServerError
           /\ w.body = InternalServerErrorBody
           /\ "driver message" \in Tokens(ErrorMsg(perr))
                 \/ ErrorsIs(perr, ErrQueryTimeout)
           /\ Tokens(ErrorMsg(perr)) \cap BodyTokens(w) = {}

\* a foreign key violation, classified and then wrapped by the caller
C27_Witness ==
    /\ ppc = "WriteError"
    /\ perr = ErrorfW("GetUser", WrapDBError(PgError(PGErrForeignKeyViolation)))
    /\ mapping = "domain"
    /\ w0 = NewRecorder
    /\ w.status = StatusInternalServerError
    /\ "driver message" \in Tokens(ErrorMsg(perr))

----------------------------------------------------------------------------
(* C30: what holds of every response of the CORS wrapper                   *)

AllowOriginSent == EffectiveHeaders(w)["Access-Control-Allow-Origin"]

AllowCredentialsSent == EffectiveHeaders(w)["Access-Control-Allow-Credentials"]

\* the wrapper answered by itself: a status of its own, no body but the text
\* of the 403, and the downstream handler not invoked
ShortCircuited ==
    /\ corsPc = "done"
    /\ nextCalls = 0
    /\ w.wroteHeader
    /\ \/ w.status = StatusForbidden /\ w.body = Disallowed(creq, NewRecorder).rw.body
       \/ w.status = StatusOK /\ w.body = <<>>

\* the wrapper handed the request to the downstream handler, once, and the
\* status and body are that handler's
PassedOn ==
    /\ nextCalls = 1
    /\ nextReq = creq
    /\ corsLog = <<>>
    /\ \E code \in DownstreamCodes :
          /\ w.status = code
          /\ w.body = Downstream(NewRecorder, code).body

\* C30: in every response of the wrapper, Access-Control-Allow-Origin is
\* absent or the request's own Origin and never "*"; it is present only when
\* the allow-list holds the origin or the wildcard;
\* Access-Control-Allow-Credentials is "true" exactly when Allow-Origin is
\* present; and the wrapper does exactly one of two things: it invokes the
\* downstream handler once, or it answers 403 or 200 without invoking it.
C30_ResponseInvariants ==
    CorsServed =>
        /\ AllowOriginSent \in {"", creq.origin}
        /\ AllowOriginSent # "*"
        /\ AllowOriginSent # "" => OriginAllowed
        /\ AllowCredentialsSent = "true" <=> AllowOriginSent # ""
        /\ AllowCredentialsSent \in {"", "true"}
        /\ nextCalls <= 1
        /\ corsPc = "next" => (nextCalls = 0 /\ ~w.wroteHeader)
        /\ corsPc = "done" => (PassedOn /\ ~ShortCircuited)
                                 \/ (ShortCircuited /\ ~PassedOn)

\* a request of an origin the list does not name was passed on under a
\* wildcard allow-list, with the origin echoed and credentials allowed
C30_Witness ==
    /\ corsPc = "done"
    /\ allowOrigin = <<"http://good.example", "*">>
    /\ creq = [origin |-> "http://evil.example", method |-> "POST"]
    /\ PassedOn
    /\ AllowOriginSent = "http://evil.example"
    /\ AllowCredentialsSent = "true"

=============================================================================
